---- MODULE Spec2Model ----
(***************************************************************************)
(* Model of the facet-coverage core: the Test Annotation Scanner           *)
(* (TestScanner.scanContent) and the Coverage Engine                       *)
(* (CoverageCalculator.calculateCoverage / checkThresholds).               *)
(*                                                                         *)
(* A test source is a sequence of lines.  A line is abstracted to what the *)
(* scanner's regular expressions can see of it: which pattern it matches,  *)
(* the ids the pattern captures and the number of opening and closing      *)
(* braces on it.  Test and describe titles are the line numbers of their   *)
(* declarations.  The field "owner" of a line is not read by the scanner:  *)
(* it records the lexical truth (the innermost test declaration whose      *)
(* braces really enclose the line) so that properties about "the test's    *)
(* own body" can be stated.                                                *)
(***************************************************************************)
EXTENDS Integers, Sequences, FiniteSets, TLC

\* ------------------------------------------------------------------ bounds
MaxLines == 5
MaxStructures == 2
MaxFacets == 3
MaxLinks == 2

\* ------------------------------------------------------- program constants
\* lineNumber - pendingFacetLine <= 3
CommentRange == 3
\* lines.slice(i, Math.min(i + 10, lines.length))
AnnotationLookahead == 10
\* defaultConfig.thresholds.global
DefaultGlobalThreshold == 75

VARIABLES
    lines,                \* the test source being scanned (content.split('\n'))
    scope,                \* lexical truth while the source is written: open blocks
    pc,                   \* "write" | "scan" | "done"
    i,                    \* loop index of scanContent (number of lines consumed)
    braceDepth,
    describeStack,
    describeDepths,
    pendingFacetIds,
    pendingFacetLine,
    currentTest,          \* <<>> for null, else <<[line, fullTitle, startBrace]>>
    currentTestFacetIds,
    testLinks,
    hist,                 \* history of the scan, never read by the scanner (see HistInit)
    structures,           \* readAllStructures(): the structures, in discovery order
    config,               \* this.config.thresholds
    report,               \* the last CoverageReport, <<>> before the first
    result,               \* the last checkThresholds result, <<>> before the first
    run,                  \* number of calculateCoverage runs started
    prevReport,           \* the report of the run before the last
    clock,                \* new Date(): advances with every report
    constName,            \* convertConstantToFacetId: the constant name, as symbols
    facetId,              \* convertConstantToFacetId: its result, <<>> before the call
    existing,             \* detectChanges: the file at existingPath
    newFacets,            \* detectChanges: the freshly parsed requirements
    changes,              \* detectChanges: its outcome, <<>> before the call
    validation,           \* validate / validateStructure: the result, <<>> before the call
    content,              \* parseContent: the lines of the markdown document
    parsed,               \* parseContent: the sections, <<>> before the call
    title,                \* slugify: the title, as characters
    slug,                 \* slugify: slugify(title) and slugify of that, <<>> before the call
    discovered,           \* readAllStructures: the discovered structure files, in order
    readResult,           \* readAllStructures: its outcome, <<>> before the call
    executed,             \* Playwright: the tests that have ended, with their status
    reporterLinks,        \* FacetCoverageReporter.testLinks
    managerCwd,           \* HotReloadManager.cwd
    processCwd,           \* process.cwd()
    debounceTimer,        \* HotReloadManager.debounceTimer: <<>> when none is pending
    callbacks,            \* the timer callbacks that have started, in firing order
    eventLog              \* what the watcher and the callbacks did, in order

readerVars == <<discovered, readResult>>

reporterVars == <<executed, reporterLinks>>

serverVars == <<managerCwd, processCwd, debounceTimer, callbacks, eventLog>>

\* the state of the components that read files and serve reports
ioVars == <<readerVars, reporterVars, serverVars>>

toolVars == <<constName, facetId, existing, newFacets, changes, validation,
              content, parsed, title, slug, ioVars>>

vars == <<lines, scope, pc, i, braceDepth, describeStack, describeDepths,
          pendingFacetIds, pendingFacetLine, currentTest, currentTestFacetIds,
          testLinks, hist, structures, config, report, result, run, prevReport,
          clock, toolVars>>

covVars == <<structures, config, report, result, run, prevReport, clock>>

scanVars == <<i, braceDepth, describeStack, describeDepths, pendingFacetIds,
              pendingFacetLine, currentTest, currentTestFacetIds, testLinks, hist, covVars>>

\* ------------------------------------------------------------ line alphabet
CommentIds == <<"c">>
InlineIds == <<"n">>
CallIds == {<<"a">>, <<"b">>}

MkLine(kind, ids, inline, open, close, owner) ==
    [kind |-> kind, ids |-> ids, inline |-> inline,
     open |-> open, close |-> close, owner |-> owner]

\* innermost test declaration whose braces are open (0: none); describes are 0
RECURSIVE InnermostTest(_)
InnermostTest(s) ==
    IF s = <<>> THEN 0
    ELSE IF s[Len(s)] > 0 THEN s[Len(s)]
    ELSE InnermostTest(SubSeq(s, 1, Len(s) - 1))

\* ------------------------------------------------------------ pure helpers
\* Dedupe that keeps repeated ids
DedupeNone(s) == s

\* [...new Set(ids)]: first occurrences, in order
RECURSIVE Dedupe(_)
Dedupe(s) ==
    IF s = <<>> THEN <<>>
    ELSE LET init == Dedupe(SubSeq(s, 1, Len(s) - 1))
             x == s[Len(s)]
         IN IF \E k \in 1..Len(init) : init[k] = x THEN init ELSE Append(init, x)

Range(s) == {s[k] : k \in 1..Len(s)}

Min(a, b) == IF a < b THEN a ELSE b

\* KeepDescribes popping only below the opening depth (< for <=)
RECURSIVE KeepDescribesStrict(_, _)
KeepDescribesStrict(depths, depth) ==
    IF depths # <<>> /\ depth < depths[Len(depths)]
    THEN KeepDescribesStrict(SubSeq(depths, 1, Len(depths) - 1), depth)
    ELSE Len(depths)

\* while (describeDepths.length > 0 && braceDepth <= top) pop: number kept
RECURSIVE KeepDescribes(_, _)
KeepDescribes(depths, depth) ==
    IF depths # <<>> /\ depth <= depths[Len(depths)]
    THEN KeepDescribes(SubSeq(depths, 1, Len(depths) - 1), depth)
    ELSE Len(depths)

\* facetAnnotationPattern.exec(lines.slice(i, min(i+10, n)).join('\n')):
\* ids of the first "annotation: facet(...)" found from line ln on, <<>> if none
AnnotationInWindow(ls, ln) ==
    LET last == Min(ln - 1 + AnnotationLookahead, Len(ls))
        hits == {j \in ln..last : ls[j].inline # <<>>}
    IN IF hits = {} THEN <<>>
       ELSE ls[CHOOSE j \in hits : \A k \in hits : j <= k].inline

MkLink(line, fullTitle, facetIds) ==
    [line |-> line, fullTitle |-> fullTitle, facetIds |-> facetIds]

\* UsePending with a window one line too wide
UsePendingWide(pending, pendingLine, lineNumber) ==
    Len(pending) > 0 /\ lineNumber - pendingLine <= CommentRange + 1

\* if (pendingFacetIds.length > 0 && lineNumber - pendingFacetLine <= 3)
UsePending(pending, pendingLine, lineNumber) ==
    Len(pending) > 0 /\ lineNumber - pendingLine <= CommentRange

\* if (pendingFacetIds.length > 0 && lineNumber - pendingFacetLine > 3)
TooFar(pending, pendingLine, lineNumber) ==
    Len(pending) > 0 /\ lineNumber - pendingLine > CommentRange

\* if (currentTest && braceDepth > currentTest.startBrace)
InsideCurrentTest(cur, depth) ==
    cur # <<>> /\ depth > cur[1].startBrace

\* if (currentTest && braceDepth <= currentTest.startBrace)
ExitingCurrentTest(cur, depth) ==
    cur # <<>> /\ depth <= cur[1].startBrace

\* startBrace: braceDepth - openBraces
StartBrace(depth, openBraces) == depth - openBraces

\* what the scan has done so far, kept to state the properties:
\*   applied   <<c, t>>: the comment of line c was applied to the test of line t
\*   resolved  tests for which the scanner obtained at least one id
\*   body      tests whose link was built from calls collected in a body
\*   calls     call lines collected for the current test
\*   used      call lines whose ids went into some Test Link
\*   dropped   tests whose collected ids were discarded
HistInit ==
    [applied |-> {}, resolved |-> {}, body |-> {}, calls |-> {}, used |-> {},
     dropped |-> {}]

\* defaultConfig.thresholds
DefaultThresholds == [global |-> DefaultGlobalThreshold, byType |-> <<>>]

ReaderIdle ==
    /\ discovered = <<>>
    /\ readResult = <<>>

ReporterIdle ==
    /\ executed = <<>>
    /\ reporterLinks = <<>>

\* the reader, the reporter and the server before any call
IoIdle ==
    /\ ReaderIdle
    /\ ReporterIdle
    /\ managerCwd = "project"
    /\ processCwd = "project"
    /\ debounceTimer = <<>>
    /\ callbacks = <<>>
    /\ eventLog = <<>>

\* the other components before any call
ToolsIdle ==
    /\ constName = <<>>
    /\ facetId = <<>>
    /\ existing = <<>>
    /\ newFacets = <<>>
    /\ changes = <<>>
    /\ validation = <<>>
    /\ content = <<>>
    /\ parsed = <<>>
    /\ title = <<>>
    /\ slug = <<>>
    /\ IoIdle

\* -------------------------------------------------------------------- Init
Init ==
    /\ lines = <<>>
    /\ scope = <<>>
    /\ pc = "write"
    /\ i = 0
    /\ braceDepth = 0
    /\ describeStack = <<>>
    /\ describeDepths = <<>>
    /\ pendingFacetIds = <<>>
    /\ pendingFacetLine = -1
    /\ currentTest = <<>>
    /\ currentTestFacetIds = <<>>
    /\ testLinks = <<>>
    /\ hist = HistInit
    /\ structures = <<>>
    /\ config = DefaultThresholds
    /\ report = <<>>
    /\ result = <<>>
    /\ run = 0
    /\ prevReport = <<>>
    /\ clock = 0
    /\ ToolsIdle

\* --------------------------------------------------------- writing a source
CanWrite == pc = "write" /\ Len(lines) < MaxLines

Write(l, sc) ==
    /\ lines' = Append(lines, l)
    /\ scope' = sc
    /\ UNCHANGED <<pc, scanVars, covVars, toolVars>>

\* "// @facet c"
WriteComment ==
    /\ CanWrite
    /\ Write(MkLine("comment", CommentIds, <<>>, 0, 0, InnermostTest(scope)), scope)

\* "describe('..', () => {"
WriteDescribe ==
    /\ CanWrite
    /\ Write(MkLine("describe", <<>>, <<>>, 1, 0, InnermostTest(scope)), Append(scope, 0))

\* "test('..', () => {});"
WriteTestOneLine ==
    /\ CanWrite
    /\ Write(MkLine("test", <<>>, <<>>, 1, 1, InnermostTest(scope)), scope)

\* "test('..', { annotation: facet('n') }, () => {});"
WriteTestInline ==
    /\ CanWrite
    /\ Write(MkLine("test", <<>>, InlineIds, 2, 2, InnermostTest(scope)), scope)

\* "test('..', () => {"
WriteTestOpen ==
    /\ CanWrite
    /\ Write(MkLine("test", <<>>, <<>>, 1, 0, InnermostTest(scope)),
             Append(scope, Len(lines) + 1))

\* "facet('a');"
WriteCall ==
    /\ CanWrite
    /\ \E ids \in CallIds :
         Write(MkLine("call", ids, <<>>, 0, 0, InnermostTest(scope)), scope)

\* "});"
WriteClose ==
    /\ CanWrite
    /\ scope # <<>>
    /\ Write(MkLine("other", <<>>, <<>>, 0, 1, InnermostTest(scope)),
             SubSeq(scope, 1, Len(scope) - 1))

\* a blank line or a statement without braces
WriteOther ==
    /\ CanWrite
    /\ Write(MkLine("other", <<>>, <<>>, 0, 0, InnermostTest(scope)), scope)

\* "const s = '}';": a closing brace inside a string literal, which closes no
\* block (kind "string" is read by no branch of the scanner)
WriteStringBrace ==
    /\ CanWrite
    /\ Write(MkLine("string", <<>>, <<>>, 0, 1, InnermostTest(scope)), scope)

\* ------------------------------------------------------------- scanContent
\* FreshLocals with the pending comment annotation kept from the scan before
StaleLocals ==
    /\ i' = 0
    /\ braceDepth' = 0
    /\ describeStack' = <<>>
    /\ describeDepths' = <<>>
    /\ UNCHANGED <<pendingFacetIds, pendingFacetLine>>
    /\ currentTest' = <<>>
    /\ currentTestFacetIds' = <<>>
    /\ testLinks' = <<>>
    /\ hist' = HistInit

\* the declarations that open scanContent: every scan starts from fresh locals
FreshLocals ==
    /\ i' = 0
    /\ braceDepth' = 0
    /\ describeStack' = <<>>
    /\ describeDepths' = <<>>
    /\ pendingFacetIds' = <<>>
    /\ pendingFacetLine' = -1
    /\ currentTest' = <<>>
    /\ currentTestFacetIds' = <<>>
    /\ testLinks' = <<>>
    /\ hist' = HistInit

\* scanContent is called on the source
ScanStart ==
    /\ pc = "write"
    /\ pc' = "scan"
    /\ FreshLocals
    /\ UNCHANGED <<lines, scope, covVars, toolVars>>

\* one iteration of the loop over lines, for a line matching commentFacetPattern
ScanComment ==
    /\ pc = "scan"
    /\ i < Len(lines)
    /\ lines[i + 1].kind = "comment"
    /\ pendingFacetIds' = lines[i + 1].ids
    /\ pendingFacetLine' = i + 1
    /\ i' = i + 1
    /\ UNCHANGED <<lines, scope, pc, braceDepth, describeStack, describeDepths,
                   currentTest, currentTestFacetIds, testLinks, hist, covVars, toolVars>>

\* one iteration of the loop over lines, for any other line
ScanLine ==
    /\ pc = "scan"
    /\ i < Len(lines)
    /\ lines[i + 1].kind # "comment"
    /\ LET line == lines[i + 1]
           lineNumber == i + 1
           \* describe blocks
           isDescribe == line.kind = "describe"
           stack1 == IF isDescribe THEN Append(describeStack, lineNumber) ELSE describeStack
           depths1 == IF isDescribe THEN Append(describeDepths, braceDepth) ELSE describeDepths
           openBraces == line.open
           closeBraces == line.close
           \* facet() call inside the current test
           collect == InsideCurrentTest(currentTest, braceDepth) /\ line.kind = "call"
           ids1 == IF collect THEN currentTestFacetIds \o line.ids ELSE currentTestFacetIds
           calls1 == IF collect THEN hist.calls \cup {lineNumber} ELSE hist.calls
           depth1 == braceDepth + openBraces - closeBraces
           keep == KeepDescribes(depths1, depth1)
           stack2 == SubSeq(stack1, 1, keep)
           depths2 == SubSeq(depths1, 1, keep)
           \* leaving the current test
           exiting == ExitingCurrentTest(currentTest, depth1)
           flush == exiting /\ Len(ids1) > 0
           links1 == IF flush
                     THEN Append(testLinks,
                                 MkLink(currentTest[1].line, currentTest[1].fullTitle,
                                        Dedupe(ids1)))
                     ELSE testLinks
           cur1 == IF exiting THEN <<>> ELSE currentTest
           ids2 == IF exiting THEN <<>> ELSE ids1
           calls2 == IF exiting THEN {} ELSE calls1
           \* test definitions
           testMatch == line.kind = "test"
           usePending == UsePending(pendingFacetIds, pendingFacetLine, lineNumber)
           facetIds == IF usePending THEN pendingFacetIds
                       ELSE AnnotationInWindow(lines, lineNumber)
           pend1 == IF testMatch /\ usePending THEN <<>> ELSE pendingFacetIds
           pline1 == IF testMatch /\ usePending THEN -1 ELSE pendingFacetLine
           fullTitle == Append(stack2, lineNumber)
           immediate == testMatch /\ Len(facetIds) > 0
           tracking == testMatch /\ Len(facetIds) = 0
           \* forget a pending comment that is too far back
           tooFar == TooFar(pend1, pline1, lineNumber)
           overwritten == tracking /\ cur1 # <<>> /\ Len(ids2) > 0
       IN /\ braceDepth' = depth1
          /\ describeStack' = stack2
          /\ describeDepths' = depths2
          /\ testLinks' = IF immediate
                          THEN Append(links1, MkLink(lineNumber, fullTitle, facetIds))
                          ELSE links1
          /\ currentTest' = IF tracking
                            THEN <<[line |-> lineNumber, fullTitle |-> fullTitle,
                                    startBrace |-> StartBrace(depth1, openBraces)]>>
                            ELSE cur1
          /\ currentTestFacetIds' = IF tracking THEN <<>> ELSE ids2
          /\ pendingFacetIds' = IF tooFar THEN <<>> ELSE pend1
          /\ pendingFacetLine' = IF tooFar THEN -1 ELSE pline1
          /\ hist' = [applied |-> IF testMatch /\ usePending
                                  THEN hist.applied \cup {<<pendingFacetLine, lineNumber>>}
                                  ELSE hist.applied,
                      resolved |-> hist.resolved
                                   \cup (IF collect THEN {currentTest[1].line} ELSE {})
                                   \cup (IF immediate THEN {lineNumber} ELSE {}),
                      body |-> IF flush THEN hist.body \cup {currentTest[1].line}
                               ELSE hist.body,
                      calls |-> IF tracking THEN {} ELSE calls2,
                      used |-> IF flush THEN hist.used \cup calls1 ELSE hist.used,
                      dropped |-> IF overwritten THEN hist.dropped \cup {cur1[1].line}
                                  ELSE hist.dropped]
    /\ i' = i + 1
    /\ UNCHANGED <<lines, scope, pc, covVars, toolVars>>

\* ScanEnd without the flush of the test that is still open
ScanEndNoFlush ==
    /\ pc = "scan"
    /\ i = Len(lines)
    /\ pc' = "done"
    /\ UNCHANGED <<lines, scope, i, braceDepth, describeStack, describeDepths,
                   pendingFacetIds, pendingFacetLine, currentTest,
                   currentTestFacetIds, testLinks, hist, covVars, toolVars>>

\* after the loop: the file ended while still in a test
ScanEnd ==
    /\ pc = "scan"
    /\ i = Len(lines)
    /\ LET flush == currentTest # <<>> /\ Len(currentTestFacetIds) > 0
       IN /\ testLinks' = IF flush
                          THEN Append(testLinks,
                                      MkLink(currentTest[1].line, currentTest[1].fullTitle,
                                             Dedupe(currentTestFacetIds)))
                          ELSE testLinks
          /\ hist' = [hist EXCEPT !.body = IF flush THEN @ \cup {currentTest[1].line} ELSE @,
                                  !.used = IF flush THEN @ \cup hist.calls ELSE @]
    /\ pc' = "done"
    /\ UNCHANGED <<lines, scope, i, braceDepth, describeStack, describeDepths,
                   pendingFacetIds, pendingFacetLine, currentTest,
                   currentTestFacetIds, covVars, toolVars>>

Next ==
    \/ WriteComment
    \/ WriteDescribe
    \/ WriteTestOneLine
    \/ WriteTestInline
    \/ WriteTestOpen
    \/ WriteCall
    \/ WriteClose
    \/ WriteOther
    \/ ScanStart
    \/ ScanComment
    \/ ScanLine
    \/ ScanEnd

Spec == Init /\ [][Next]_vars


\* ------------------------------------------------------ CoverageCalculator
\* localeCompare order of the facet types of the model
TypeOrder == <<"dx", "ux">>
FacetIdSet == {"a", "b"}
LinkIdSeqs == {<<"a">>, <<"b", "a">>, <<"a", "a">>}
GlobalThresholds == {50, 51, 100}
TypeThresholds ==
    { <<>>,
      <<[type |-> "ux", threshold |-> 50]>>,
      <<[type |-> "dx", threshold |-> 51], [type |-> "ux", threshold |-> 0]>> }

\* Percentage with Math.floor in place of Math.round
PercentageFloor(covered, total) ==
    IF total > 0 THEN (100 * covered) \div total ELSE 100

\* total > 0 ? Math.round((covered / total) * 100) : 100
\* (the quotient below is Math.round of the double for every total < 40)
Percentage(covered, total) ==
    IF total > 0 THEN (200 * covered + total) \div (2 * total) ELSE 100

RECURSIVE Repeat(_, _)
Repeat(x, n) == IF n = 0 THEN <<>> ELSE Append(Repeat(x, n - 1), x)

Occurrences(s, x) == Cardinality({k \in 1..Len(s) : s[k] = x})

\* facetToTests.get(id) || []: one push per occurrence of id in a link's facetIds
RECURSIVE FacetToTests(_, _)
FacetToTests(links, id) ==
    IF links = <<>> THEN <<>>
    ELSE LET link == links[Len(links)]
         IN FacetToTests(SubSeq(links, 1, Len(links) - 1), id)
            \o Repeat(link, Occurrences(link.facetIds, id))

CoveredCount(fcs) == Cardinality({k \in 1..Len(fcs) : fcs[k].covered})

\* the sorted entries of the types TypeOrder[1..n] that occur in fcs
RECURSIVE TypeEntries(_, _)
TypeEntries(fcs, n) ==
    IF n = 0 THEN <<>>
    ELSE LET type == TypeOrder[n]
             total == Cardinality({k \in 1..Len(fcs) : fcs[k].facet.type = type})
             covered == Cardinality({k \in 1..Len(fcs) :
                                        fcs[k].facet.type = type /\ fcs[k].covered})
             rest == TypeEntries(fcs, n - 1)
         IN IF total = 0 THEN rest
            ELSE Append(rest, [type |-> type, total |-> total, covered |-> covered,
                               percentage |-> Percentage(covered, total)])

CalculateTypeCoverage(fcs) == TypeEntries(fcs, Len(TypeOrder))

CalculateFeatureCoverage(structure, links) ==
    LET fcs == [k \in 1..Len(structure.facets) |->
                   LET coveredBy == FacetToTests(links, structure.facets[k].id)
                   IN [facet |-> structure.facets[k],
                       covered |-> Len(coveredBy) > 0,
                       coveredBy |-> coveredBy]]
    IN [feature |-> structure.feature,
        totalFacets |-> Len(fcs),
        coveredFacets |-> CoveredCount(fcs),
        percentage |-> Percentage(CoveredCount(fcs), Len(fcs)),
        byType |-> CalculateTypeCoverage(fcs),
        facets |-> fcs]

RECURSIVE AllFacets(_)
AllFacets(features) ==
    IF features = <<>> THEN <<>>
    ELSE AllFacets(SubSeq(features, 1, Len(features) - 1))
         \o features[Len(features)].facets

\* for (const fc of featureCoverage.facets) if (!fc.covered) uncovered.push(fc.facet)
UncoveredOf(fcs) ==
    LET notCovered == SelectSeq(fcs, LAMBDA fc : ~fc.covered)
    IN [k \in 1..Len(notCovered) |-> notCovered[k].facet]

CoverageReport(structs, links, now) ==
    LET features == [k \in 1..Len(structs) |-> CalculateFeatureCoverage(structs[k], links)]
        allFacets == AllFacets(features)
        totalFacets == Len(allFacets)
        coveredFacets == CoveredCount(allFacets)
    IN [timestamp |-> now,
        summary |-> [totalFacets |-> totalFacets,
                     coveredFacets |-> coveredFacets,
                     uncoveredFacets |-> totalFacets - coveredFacets,
                     percentage |-> Percentage(coveredFacets, totalFacets)],
        byType |-> CalculateTypeCoverage(allFacets),
        features |-> features,
        tests |-> links,
        uncovered |-> UncoveredOf(allFacets)]

\* BelowThreshold with <= in place of <
BelowOrAtThreshold(percentage, threshold) == percentage <= threshold

\* percentage < threshold
BelowThreshold(percentage, threshold) == percentage < threshold

\* report.byType.find(t => t.type === type): <<>> when there is none
FindType(byType, type) ==
    SelectSeq(byType, LAMBDA e : e.type = type)

RECURSIVE TypeFailures(_, _)
TypeFailures(rep, byType) ==
    IF byType = <<>> THEN <<>>
    ELSE LET rest == TypeFailures(rep, SubSeq(byType, 1, Len(byType) - 1))
             entry == byType[Len(byType)]
             found == FindType(rep.byType, entry.type)
         IN IF found # <<>> /\ BelowThreshold(found[1].percentage, entry.threshold)
            THEN Append(rest, [what |-> entry.type,
                               percentage |-> found[1].percentage,
                               threshold |-> entry.threshold])
            ELSE rest

CheckThresholdsResult(rep, thresholds) ==
    LET global == IF BelowThreshold(rep.summary.percentage, thresholds.global)
                  THEN <<[what |-> "Global",
                          percentage |-> rep.summary.percentage,
                          threshold |-> thresholds.global]>>
                  ELSE <<>>
        failures == global \o TypeFailures(rep, thresholds.byType)
    IN [passed |-> Len(failures) = 0, failures |-> failures]

TotalFacets == Len(AllFacets(structures))

\* the coverage engine on its own: structures and scanned Test Links of any shape
InitCov ==
    /\ lines = <<>>
    /\ scope = <<>>
    /\ pc = "input"
    /\ i = 0
    /\ braceDepth = 0
    /\ describeStack = <<>>
    /\ describeDepths = <<>>
    /\ pendingFacetIds = <<>>
    /\ pendingFacetLine = -1
    /\ currentTest = <<>>
    /\ currentTestFacetIds = <<>>
    /\ testLinks = <<>>
    /\ hist = HistInit
    /\ structures = <<>>
    /\ config \in [global : GlobalThresholds, byType : TypeThresholds]
    /\ report = <<>>
    /\ result = <<>>
    /\ run = 0
    /\ prevReport = <<>>
    /\ clock = 0
    /\ ToolsIdle

scannerVars == <<lines, scope, i, braceDepth, describeStack, describeDepths,
                 pendingFacetIds, pendingFacetLine, currentTest, currentTestFacetIds,
                 hist>>

\* a structure file is discovered
AddStructure ==
    /\ pc = "input"
    /\ Len(structures) < MaxStructures
    /\ structures' = Append(structures, [feature |-> Len(structures) + 1, facets |-> <<>>])
    /\ UNCHANGED <<toolVars, scannerVars, pc, testLinks, config, report, result, run, prevReport, clock>>

\* a requirement of the last structure (ids are unique within a structure)
AddFacet ==
    /\ pc = "input"
    /\ structures # <<>>
    /\ TotalFacets < MaxFacets
    /\ \E id \in FacetIdSet, n \in 1..Len(TypeOrder) :
         LET last == structures[Len(structures)]
         IN /\ \A k \in 1..Len(last.facets) : last.facets[k].id # id
            /\ structures' = [structures EXCEPT ![Len(structures)].facets =
                                 Append(@, [id |-> id, type |-> TypeOrder[n]])]
    /\ UNCHANGED <<toolVars, scannerVars, pc, testLinks, config, report, result, run, prevReport, clock>>

\* a Test Link returned by the scanner
AddLink ==
    /\ pc = "input"
    /\ Len(testLinks) < MaxLinks
    /\ \E ids \in LinkIdSeqs :
         testLinks' = Append(testLinks,
                             MkLink(Len(testLinks) + 1, <<Len(testLinks) + 1>>, ids))
    /\ UNCHANGED <<toolVars, scannerVars, pc, structures, config, report, result, run, prevReport, clock>>

\* calculateCoverage, after the structures were read and the tests scanned
CalculateCoverage ==
    /\ pc \in {"input", "done"}
    /\ report' = CoverageReport(structures, testLinks, clock)
    /\ prevReport' = report
    /\ run' = run + 1
    /\ clock' = clock + 1
    /\ pc' = "reported"
    /\ UNCHANGED <<toolVars, scannerVars, testLinks, structures, config, result>>

\* checkThresholds(report)
CheckThresholds ==
    /\ pc = "reported"
    /\ result' = CheckThresholdsResult(report, config)
    /\ pc' = "checked"
    /\ UNCHANGED <<toolVars, scannerVars, testLinks, structures, config, report, run, prevReport, clock>>

NextCov ==
    \/ AddStructure
    \/ AddFacet
    \/ AddLink
    \/ CalculateCoverage
    \/ CheckThresholds

SpecCov == InitCov /\ [][NextCov]_vars



\* ---------------------------------------------- two runs over the same inputs
\* the structures of the two-run specification: four requirements in two features
FixtureStructures ==
    << [feature |-> 1, facets |-> <<[id |-> "a", type |-> "ux"], [id |-> "c", type |-> "dx"]>>],
       [feature |-> 2, facets |-> <<[id |-> "n", type |-> "ux"], [id |-> "b", type |-> "dx"]>>] >>

InitRerun ==
    /\ lines = <<>>
    /\ scope = <<>>
    /\ pc = "write"
    /\ i = 0
    /\ braceDepth = 0
    /\ describeStack = <<>>
    /\ describeDepths = <<>>
    /\ pendingFacetIds = <<>>
    /\ pendingFacetLine = -1
    /\ currentTest = <<>>
    /\ currentTestFacetIds = <<>>
    /\ testLinks = <<>>
    /\ hist = HistInit
    /\ structures = FixtureStructures
    /\ config = DefaultThresholds
    /\ report = <<>>
    /\ result = <<>>
    /\ run = 0
    /\ prevReport = <<>>
    /\ clock = 0
    /\ ToolsIdle

\* calculateCoverage is called again on the same calculator, structures and
\* test source: its scanner scans the source once more
Rescan ==
    /\ pc = "reported"
    /\ run < 2
    /\ pc' = "scan"
    /\ FreshLocals
    /\ UNCHANGED <<lines, scope, covVars, toolVars>>

NextRerun ==
    \/ WriteComment
    \/ WriteTestOneLine
    \/ WriteTestInline
    \/ WriteTestOpen
    \/ WriteCall
    \/ WriteClose
    \/ ScanStart
    \/ ScanComment
    \/ ScanLine
    \/ ScanEnd
    \/ CalculateCoverage
    \/ Rescan

SpecRerun == InitRerun /\ [][NextRerun]_vars

Reported == pc \in {"reported", "checked"}

\* the Test Links that list id among their facetIds, each once, in scan order
LinksListing(id) == SelectSeq(testLinks, LAMBDA l : id \in Range(l.facetIds))

\* the requirements of structs[1..n], in order, that no Test Link lists
RECURSIVE NotListed(_)
NotListed(facets) ==
    IF facets = <<>> THEN <<>>
    ELSE LET rest == NotListed(SubSeq(facets, 1, Len(facets) - 1))
             f == facets[Len(facets)]
         IN IF LinksListing(f.id) = <<>> THEN Append(rest, f) ELSE rest

RECURSIVE FacetsOf(_)
FacetsOf(structs) ==
    IF structs = <<>> THEN <<>>
    ELSE FacetsOf(SubSeq(structs, 1, Len(structs) - 1)) \o structs[Len(structs)].facets

\* C1: for every requirement of every structure, covered holds iff some
\* Test Link lists its id, coveredBy is exactly the list of those Test
\* Links, and the uncovered list holds exactly the requirements not covered.
C1_CoveredIffLinked ==
    Reported =>
        /\ Len(report.features) = Len(structures)
        /\ \A f \in 1..Len(structures) :
             /\ Len(report.features[f].facets) = Len(structures[f].facets)
             /\ \A k \in 1..Len(structures[f].facets) :
                  LET fc == report.features[f].facets[k]
                      facet == structures[f].facets[k]
                  IN /\ fc.facet = facet
                     /\ fc.covered <=> LinksListing(facet.id) # <<>>
                     /\ fc.coveredBy = LinksListing(facet.id)
        /\ report.uncovered = NotListed(FacetsOf(structures))

\* C1 without the multiplicity of coveredBy: the flags and the uncovered
\* list are right, and coveredBy holds the listing Test Links, each at
\* least once (once per occurrence of the id in the link's facetIds).
C1_CoveredFlags ==
    Reported =>
        /\ \A f \in 1..Len(structures) :
             \A k \in 1..Len(structures[f].facets) :
                  LET fc == report.features[f].facets[k]
                      facet == structures[f].facets[k]
                  IN /\ fc.covered <=> LinksListing(facet.id) # <<>>
                     /\ Range(fc.coveredBy) = Range(LinksListing(facet.id))
        /\ report.uncovered = NotListed(FacetsOf(structures))

\* p is covered / total * 100 rounded to the nearest integer, 100 for total 0
IsRoundedPercentage(p, covered, total) ==
    /\ p \in 0..100
    /\ covered \in 0..total
    /\ IF total = 0 THEN p = 100
       ELSE /\ (2 * p - 1) * total <= 200 * covered
            /\ 200 * covered < (2 * p + 1) * total

TypeEntriesRounded(byType) ==
    \A k \in 1..Len(byType) :
        IsRoundedPercentage(byType[k].percentage, byType[k].covered, byType[k].total)

ViolatedTypeThresholds ==
    {k \in 1..Len(config.byType) :
        \E e \in 1..Len(report.byType) :
            /\ report.byType[e].type = config.byType[k].type
            /\ ~(report.byType[e].percentage >= config.byType[k].threshold)}

\* C3: checkThresholds passes iff the global percentage is >= the global
\* threshold and every configured type's percentage is >= its threshold;
\* equal passes, one below fails; passed iff failures is empty, with one
\* failure per violated threshold.
C3_Thresholds ==
    pc = "checked" =>
        LET globalOk == report.summary.percentage >= config.global
        IN /\ result.passed <=> (globalOk /\ ViolatedTypeThresholds = {})
           /\ result.passed <=> result.failures = <<>>
           /\ Len(result.failures) =
                  (IF globalOk THEN 0 ELSE 1) + Cardinality(ViolatedTypeThresholds)
           /\ report.summary.percentage = config.global - 1 => ~result.passed
           /\ \A k \in 1..Len(config.byType) : \A e \in 1..Len(report.byType) :
                  (/\ report.byType[e].type = config.byType[k].type
                   /\ report.byType[e].percentage = config.byType[k].threshold - 1)
                  => ~result.passed

\* a global and a type percentage both exactly on their thresholds: passed
C3_Witness ==
    /\ pc = "checked"
    /\ config.global = 50
    /\ report.summary.percentage = 50
    /\ \E k \in 1..Len(config.byType) : \E e \in 1..Len(report.byType) :
          /\ report.byType[e].type = config.byType[k].type
          /\ report.byType[e].percentage = config.byType[k].threshold
          /\ config.byType[k].threshold = 50
    /\ result.passed

\* ------------------------------------------------ lexical truth of a source
Tests == {t \in 1..Len(lines) : lines[t].kind = "test"}

\* the Test Links (indices) emitted for the test declared on line t
LinksOf(t) == {k \in 1..Len(testLinks) : testLinks[k].line = t}

\* line k lies inside the body of the test declared on line t
RECURSIVE Encloses(_, _)
Encloses(t, k) ==
    /\ lines[k].owner # 0
    /\ \/ lines[k].owner = t
       \/ Encloses(t, lines[k].owner)

BodyCalls(t) == {k \in 1..Len(lines) : lines[k].kind = "call" /\ Encloses(t, k)}

HasLeadingComment(t) ==
    \E c \in 1..(t - 1) : lines[c].kind = "comment" /\ t - c <= CommentRange

Unannotated(t) ==
    /\ ~HasLeadingComment(t)
    /\ lines[t].inline = <<>>
    /\ BodyCalls(t) = {}

NoDuplicates(s) == \A x, y \in 1..Len(s) : s[x] = s[y] => x = y

\* ------------------------------------------------------------------ claims

\* the test of line t carries an annotation of its own: an applied leading
\* comment, an inline annotation in its declaration, or a call that lies in
\* its body and in no nested declaration's body
HasOwnIds(t) ==
    \/ \E c \in 1..Len(lines) : <<c, t>> \in hist.applied
    \/ lines[t].inline # <<>>
    \/ \E k \in 1..Len(lines) : lines[k].kind = "call" /\ lines[k].owner = t

\* C5: every recognised test declaration yields at most one Test Link, and
\* one for which at least one requirement id was resolved yields exactly
\* one: no test is emitted twice and none is dropped, also when its body is
\* still tracked at the next test declaration.
C5_OneEntryPerTest ==
    pc = "done" =>
        \A t \in Tests :
            /\ Cardinality(LinksOf(t)) <= 1
            /\ HasOwnIds(t) => LinksOf(t) # {}

\* C6: a test without a leading comment in range, without inline annotation
\* in its declaration and without annotation call in its body never appears
\* in the Test Links.
C6_UnannotatedNeverLinked ==
    \A t \in Tests : (pc # "write" /\ Unannotated(t)) => LinksOf(t) = {}

\* C7: a test that took the ids of a leading comment has exactly those ids,
\* otherwise a test for which an inline annotation matched has exactly the
\* ids of that annotation, and in both cases the annotation calls inside
\* that test's body went into no Test Link.
C7_PriorityOrder ==
    pc = "done" =>
        \A t \in Tests :
            LET cs == {c \in 1..Len(lines) : <<c, t>> \in hist.applied}
                inline == AnnotationInWindow(lines, t)
            IN /\ cs # {} =>
                    /\ LinksOf(t) # {}
                    /\ \A k \in LinksOf(t) : \A c \in cs :
                           testLinks[k].facetIds = lines[c].ids
               /\ (cs = {} /\ inline # <<>>) =>
                    /\ LinksOf(t) # {}
                    /\ \A k \in LinksOf(t) : testLinks[k].facetIds = inline
               /\ (cs # {} \/ inline # <<>>) => BodyCalls(t) \cap hist.used = {}

\* C8: a comment annotation of line c is applied to the test of line t only
\* if it is the most recent comment, no other test lies between c and t and
\* t - c <= 3; it is applied to at most one test, and a pending annotation
\* does not survive past its 3-line window.
C8_CommentWindow ==
    /\ \A p \in hist.applied :
         LET c == p[1]
             t == p[2]
         IN /\ lines[c].kind = "comment"
            /\ lines[t].kind = "test"
            /\ c < t
            /\ t - c <= 3
            /\ \A m \in (c + 1)..(t - 1) : lines[m].kind \notin {"comment", "test"}
            /\ \A q \in hist.applied : q[1] = c => q[2] = t
            /\ \E k \in LinksOf(t) : testLinks[k].facetIds = lines[c].ids
    /\ (pc # "write" /\ Len(pendingFacetIds) > 0) =>
         /\ i - pendingFacetLine <= 3
         /\ lines[pendingFacetLine].kind = "comment"
         /\ \A m \in (pendingFacetLine + 1)..i : lines[m].kind \notin {"comment", "test"}

\* a comment two lines and one comment away from its test: <<c, t>> with t - c = 3
C8_Witness ==
    /\ pc = "done"
    /\ \E p \in hist.applied :
         /\ p[2] - p[1] = 3
         /\ \E c \in 1..(p[1] - 1) : lines[c].kind = "comment"

NextTitles ==
    \/ WriteDescribe
    \/ WriteTestInline
    \/ WriteTestOpen
    \/ WriteClose
    \/ WriteStringBrace
    \/ ScanStart
    \/ ScanLine
    \/ ScanEnd

SpecTitles == Init /\ [][NextTitles]_vars

\* the blocks really open after the first n lines, outermost first, each
\* named by the line that opened it
RECURSIVE OpenBlocks(_, _)
OpenBlocks(ls, n) ==
    IF n = 0 THEN <<>>
    ELSE LET prev == OpenBlocks(ls, n - 1)
             l == ls[n]
         IN IF l.kind = "string" THEN prev
            ELSE IF l.open > l.close THEN Append(prev, n)
            ELSE IF l.close > l.open /\ prev # <<>>
                 THEN SubSeq(prev, 1, Len(prev) - 1)
            ELSE prev

\* the describe blocks really open at the declaration on line t
OpenDescribes(ls, t) ==
    SelectSeq(OpenBlocks(ls, t - 1), LAMBDA d : ls[d].kind = "describe")

\* the running brace depth after the first n lines: every brace character counts
RECURSIVE CountedDepth(_, _)
CountedDepth(ls, n) ==
    IF n = 0 THEN 0 ELSE CountedDepth(ls, n - 1) + ls[n].open - ls[n].close

\* the describe of line d is still on the suite stack at line t: the running
\* depth stayed above the depth at which it was opened on every line d..t
SuiteOnStack(ls, d, t) ==
    /\ ls[d].kind = "describe"
    /\ \A j \in d..t : CountedDepth(ls, j) > CountedDepth(ls, d - 1)

SuitesOnStack(ls, t) ==
    SelectSeq([d \in 1..(t - 1) |-> d], LAMBDA d : SuiteOnStack(ls, d, t))

CoreIdle ==
    /\ lines = <<>>
    /\ scope = <<>>
    /\ i = 0
    /\ braceDepth = 0
    /\ describeStack = <<>>
    /\ describeDepths = <<>>
    /\ pendingFacetIds = <<>>
    /\ pendingFacetLine = -1
    /\ currentTest = <<>>
    /\ currentTestFacetIds = <<>>
    /\ testLinks = <<>>
    /\ hist = HistInit
    /\ structures = <<>>
    /\ config = DefaultThresholds
    /\ report = <<>>
    /\ result = <<>>
    /\ run = 0
    /\ prevReport = <<>>
    /\ clock = 0

coreVars == <<scannerVars, testLinks, covVars>>

\* ------------------------------------------------ convertConstantToFacetId
\* A constant name (Facets\.([A-Z_][A-Z0-9_]*)) is a sequence of symbols: an
\* upper-case word or the underscore.  A facet id is the sequence of its
\* words and separator characters, so that two ids are the same string iff
\* they are the same sequence.
MaxNameLen == 7

Words == {"FEATURES", "COMPLIANCE", "PCI", "TLS"}

\* defaultConfig.facetTypes
KnownTypes == <<"product", "dx", "technical", "compliance", "business", "ux">>

\* toLowerCase() of a word
ToLowerCase(w) ==
    CASE w = "FEATURES" -> "features"
      [] w = "COMPLIANCE" -> "compliance"
      [] w = "PCI" -> "pci"
      [] w = "TLS" -> "tls"

\* constName.toLowerCase().split('_'): "" between two adjacent underscores
RECURSIVE SplitUnderscore(_)
SplitUnderscore(name) ==
    IF name = <<>> THEN <<"">>
    ELSE LET init == SplitUnderscore(SubSeq(name, 1, Len(name) - 1))
             x == name[Len(name)]
         IN IF x = "_" THEN Append(init, "")
            ELSE [init EXCEPT ![Len(init)] = ToLowerCase(x)]

\* parts.join(sep): an empty part adds no character, its separator stays
RECURSIVE Join(_, _)
Join(parts, sep) ==
    IF parts = <<>> THEN <<>>
    ELSE LET x == parts[Len(parts)]
             tok == IF x = "" THEN <<>> ELSE <<x>>
         IN IF Len(parts) = 1 THEN tok
            ELSE Join(SubSeq(parts, 1, Len(parts) - 1), sep) \o <<sep>> \o tok

\* for (i = 1; i < parts.length; i++) if (knownTypes.includes(parts[i])):
\* the first such position (1-based), 0 for typeIndex = -1
TypeIndex(parts) ==
    LET hits == {k \in 2..Len(parts) : parts[k] \in Range(KnownTypes)}
    IN IF hits = {} THEN 0 ELSE CHOOSE k \in hits : \A h \in hits : k <= h

ConvertConstantToFacetId(name) ==
    LET parts == SplitUnderscore(name)
        k == TypeIndex(parts)
        rest == SubSeq(parts, 2, Len(parts))
    IN IF parts[1] = "features" /\ Len(parts) > 2 /\ k > 2
       THEN \* `${path}/${type}:${section}`
            Join(SubSeq(parts, 1, k - 1), "/") \o <<"/", parts[k], ":">>
                \o Join(SubSeq(parts, k + 1, Len(parts)), "-")
       ELSE IF parts[1] \in Range(KnownTypes)
       THEN \* legacy: `${type}:${section}`
            <<parts[1], ":">> \o Join(rest, "-")
       ELSE \* fallback: first part as type, rest as section
            Join(<<parts[1]>>, "") \o <<":">> \o Join(rest, "-")

InitConv ==
    /\ CoreIdle
    /\ ToolsIdle
    /\ pc = "name"

\* the next word of a Facets constant found in a test
AppendWord ==
    /\ pc = "name"
    /\ Len(constName) < MaxNameLen
    /\ IF constName = <<>> THEN TRUE ELSE constName[Len(constName)] = "_"
    /\ \E w \in Words : constName' = Append(constName, w)
    /\ UNCHANGED <<pc, coreVars, facetId, existing, newFacets, changes, validation,
                   content, parsed, title, slug, ioVars>>

\* the next underscore of a Facets constant found in a test
AppendUnderscore ==
    /\ pc = "name"
    /\ Len(constName) < MaxNameLen
    /\ constName' = Append(constName, "_")
    /\ UNCHANGED <<pc, coreVars, facetId, existing, newFacets, changes, validation,
                   content, parsed, title, slug, ioVars>>

\* const facetId = this.convertConstantToFacetId(constName)
ConvertConstant ==
    /\ pc = "name"
    /\ constName # <<>>
    /\ facetId' = ConvertConstantToFacetId(constName)
    /\ pc' = "converted"
    /\ UNCHANGED <<coreVars, constName, existing, newFacets, changes, validation,
                   content, parsed, title, slug, ioVars>>

NextConv ==
    \/ AppendWord
    \/ AppendUnderscore
    \/ ConvertConstant

SpecConv == InitConv /\ [][NextConv]_vars

\* the positions p of a double underscore in name (name[p] and name[p + 1])
DoubleUnderscores(name) ==
    {p \in 1..(Len(name) - 1) : name[p] = "_" /\ name[p + 1] = "_"}

\* name is PARENT__SUB: words joined by single underscores on both sides
IsSubFacetConstant(name) ==
    /\ Cardinality(DoubleUnderscores(name)) = 1
    /\ name[1] # "_"
    /\ name[Len(name)] # "_"

\* C12: a constant whose name contains a double underscore resolves to the
\* id of the part before '__', converted like a regular constant, followed
\* by '/' and the lower-cased, hyphen-joined part after '__'.
C12_DoubleUnderscoreSubId ==
    (pc = "converted" /\ IsSubFacetConstant(constName)) =>
        LET p == CHOOSE q \in DoubleUnderscores(constName) : TRUE
            parent == SubSeq(constName, 1, p - 1)
            sub == SubSeq(constName, p + 2, Len(constName))
        IN facetId = ConvertConstantToFacetId(parent) \o <<"/">>
                         \o Join(SplitUnderscore(sub), "-")

\* ---------------------------------------------- IDChangeDetector.detectChanges
\* A requirement is its id and its source key (`${source.file}#${source.section}`).
MaxOldFacets == 2
MaxNewFacets == 2

ChangeIds == {"A", "B", "C", "D"}
SourceKeys == {"S1", "S2"}

\* what existsSync / readFileSync / JSON.parse make of the file at existingPath:
\*   "missing"   the path does not exist
\*   "invalid"   the content is not JSON (JSON.parse throws)
\*   "nofacets"  the content is JSON without a facets array ({} or null)
\*   "ok"        the content is a structure
ExistingStates == {"missing", "invalid", "nofacets", "ok"}

IdsOf(facets) == {facets[k].id : k \in 1..Len(facets)}
KeysOf(facets) == {facets[k].key : k \in 1..Len(facets)}

\* Map.get after the loop of Map.set(facet.id, facet): the last facet set
ById(facets, id) ==
    facets[CHOOSE k \in 1..Len(facets) :
               /\ facets[k].id = id
               /\ \A j \in (k + 1)..Len(facets) : facets[j].id # id]

\* newBySource.get(sourceKey): the last facet set under the key
BySource(facets, key) ==
    facets[CHOOSE k \in 1..Len(facets) :
               /\ facets[k].key = key
               /\ \A j \in (k + 1)..Len(facets) : facets[j].key # key]

\* the keys of a Map in iteration order: order of first insertion
RECURSIVE MapKeys(_)
MapKeys(facets) ==
    IF facets = <<>> THEN <<>>
    ELSE LET init == MapKeys(SubSeq(facets, 1, Len(facets) - 1))
             id == facets[Len(facets)].id
         IN IF id \in Range(init) THEN init ELSE Append(init, id)

EmptyReport ==
    [threw |-> FALSE, hasChanges |-> FALSE, added |-> <<>>, removed |-> <<>>,
     renamed |-> <<>>]

\* for (const facet of existing.facets) on a value without facets: TypeError
ThrownTypeError ==
    [threw |-> TRUE, hasChanges |-> FALSE, added |-> <<>>, removed |-> <<>>,
     renamed |-> <<>>]

\* the loop over existingById: renamed entries for the first n old ids
RECURSIVE RenamedOf(_, _, _)
RenamedOf(old, new, n) ==
    IF n = 0 THEN <<>>
    ELSE LET rest == RenamedOf(old, new, n - 1)
             id == MapKeys(old)[n]
             facet == ById(old, id)
         IN IF id \notin IdsOf(new) /\ facet.key \in KeysOf(new)
               /\ BySource(new, facet.key).id # id
            THEN Append(rest, [type |-> "renamed", oldId |-> id,
                               newId |-> BySource(new, facet.key).id,
                               key |-> facet.key])
            ELSE rest

\* the loop over existingById: removed entries for the first n old ids
RECURSIVE RemovedOf(_, _, _)
RemovedOf(old, new, n) ==
    IF n = 0 THEN <<>>
    ELSE LET rest == RemovedOf(old, new, n - 1)
             id == MapKeys(old)[n]
             facet == ById(old, id)
         IN IF id \notin IdsOf(new) /\ facet.key \notin KeysOf(new)
            THEN Append(rest, [type |-> "removed", oldId |-> id, key |-> facet.key])
            ELSE rest

\* IsAdded without the exclusion of the new halves of renames
IsAddedAlsoRenamed(id, existingIds, renamedNewIds) ==
    id \notin existingIds

\* if (!existingById.has(id) && !renamedNewIds.has(id))
IsAdded(id, existingIds, renamedNewIds) ==
    id \notin existingIds /\ id \notin renamedNewIds

\* the loop over newById: added entries for the first n new ids
RECURSIVE AddedOf(_, _, _, _)
AddedOf(old, new, renamedNewIds, n) ==
    IF n = 0 THEN <<>>
    ELSE LET rest == AddedOf(old, new, renamedNewIds, n - 1)
             id == MapKeys(new)[n]
         IN IF IsAdded(id, IdsOf(old), renamedNewIds)
            THEN Append(rest, [type |-> "added", newId |-> id, key |-> ById(new, id).key])
            ELSE rest

DetectChangesReport(ex, new) ==
    IF ex.state = "missing" THEN EmptyReport
    ELSE IF ex.state = "invalid" THEN EmptyReport
    ELSE IF ex.state = "nofacets" THEN ThrownTypeError
    ELSE LET old == ex.facets
             renamed == RenamedOf(old, new, Len(MapKeys(old)))
             removed == RemovedOf(old, new, Len(MapKeys(old)))
             renamedNewIds == {renamed[k].newId : k \in 1..Len(renamed)}
             added == AddedOf(old, new, renamedNewIds, Len(MapKeys(new)))
         IN [threw |-> FALSE,
             hasChanges |-> Len(added) > 0 \/ Len(removed) > 0 \/ Len(renamed) > 0,
             added |-> added, removed |-> removed, renamed |-> renamed]

InitDiff ==
    /\ CoreIdle
    /\ pc = "input"
    /\ constName = <<>>
    /\ facetId = <<>>
    /\ existing \in [state : ExistingStates, facets : {<<>>}]
    /\ newFacets = <<>>
    /\ changes = <<>>
    /\ validation = <<>>
    /\ content = <<>>
    /\ parsed = <<>>
    /\ title = <<>>
    /\ slug = <<>>
    /\ IoIdle

\* a requirement of the stored structure (a structure file holds an id once)
AddOldFacet ==
    /\ pc = "input"
    /\ existing.state = "ok"
    /\ Len(existing.facets) < MaxOldFacets
    /\ \E id \in ChangeIds \ IdsOf(existing.facets) : \E key \in SourceKeys :
         existing' = [existing EXCEPT !.facets = Append(@, [id |-> id, key |-> key])]
    /\ UNCHANGED <<pc, coreVars, constName, facetId, newFacets, changes, validation,
                   content, parsed, title, slug, ioVars>>

\* a freshly parsed requirement
AddNewFacet ==
    /\ pc = "input"
    /\ Len(newFacets) < MaxNewFacets
    /\ \E id \in ChangeIds : \E key \in SourceKeys :
         newFacets' = Append(newFacets, [id |-> id, key |-> key])
    /\ UNCHANGED <<pc, coreVars, constName, facetId, existing, changes, validation,
                   content, parsed, title, slug, ioVars>>

\* IDChangeDetector.detectChanges(existingPath, newFacets)
DetectChanges ==
    /\ pc = "input"
    /\ changes' = DetectChangesReport(existing, newFacets)
    /\ pc' = "detected"
    /\ UNCHANGED <<coreVars, constName, facetId, existing, newFacets, validation,
                   content, parsed, title, slug, ioVars>>

NextDiff ==
    \/ AddOldFacet
    \/ AddNewFacet
    \/ DetectChanges

SpecDiff == InitDiff /\ [][NextDiff]_vars

\* number of entries of list whose field f is id
CountOld(list, id) == Cardinality({k \in 1..Len(list) : list[k].oldId = id})
CountNew(list, id) == Cardinality({k \in 1..Len(list) : list[k].newId = id})

\* the source key of the old requirement id
OldKey(id) == (CHOOSE f \in Range(existing.facets) : f.id = id).key

RemovedIds == IdsOf(existing.facets) \ IdsOf(newFacets)
AddedIds == IdsOf(newFacets) \ IdsOf(existing.facets)

\* every old id absent from the new ids is once in renamed (its source key
\* is on the new side) or once in removed (it is not), and the three lists
\* hold entries of such ids only
OldIdsPartitioned ==
    /\ \A id \in RemovedIds :
         IF OldKey(id) \in KeysOf(newFacets)
         THEN CountOld(changes.renamed, id) = 1 /\ CountOld(changes.removed, id) = 0
         ELSE CountOld(changes.renamed, id) = 0 /\ CountOld(changes.removed, id) = 1
    /\ \A k \in 1..Len(changes.renamed) : changes.renamed[k].oldId \in RemovedIds
    /\ \A k \in 1..Len(changes.removed) : changes.removed[k].oldId \in RemovedIds
    /\ \A k \in 1..Len(changes.added) : changes.added[k].newId \in AddedIds

\* C13 (as stated): detectChanges partitions the id difference: every old id
\* absent from the new ids is exactly once an oldId, in renamed or removed by
\* its source key; every new id absent from the old ids appears exactly once,
\* as newId of an added entry unless it is the newId of a renamed entry;
\* the report holds no other entries.
C13_Partition ==
    (pc = "detected" /\ existing.state = "ok") =>
        /\ OldIdsPartitioned
        /\ \A id \in AddedIds :
             /\ CountNew(changes.added, id) + CountNew(changes.renamed, id) = 1
             /\ CountNew(changes.renamed, id) = 0 => CountNew(changes.added, id) = 1

\* the old ids absent from the new ids whose source key belongs, on the new
\* side, to the requirement id
RenamedTo(id) ==
    {o \in RemovedIds : /\ OldKey(o) \in KeysOf(newFacets)
                        /\ BySource(newFacets, OldKey(o)).id = id}

\* C13 (amended): every old id absent from the new ids is exactly once an
\* oldId, in renamed or removed by its source key; every new id absent from
\* the old ids is the newId of exactly one added entry when no old id is
\* renamed to it, and otherwise of no added entry and of one renamed entry
\* per old id whose source key resolves to it (several old ids that shared a
\* source key are all renamed to the same new id); the report holds no other
\* entries.
C13_PartitionByOldId ==
    (pc = "detected" /\ existing.state = "ok") =>
        /\ OldIdsPartitioned
        /\ \A id \in AddedIds :
             /\ CountNew(changes.renamed, id) = Cardinality(RenamedTo(id))
             /\ CountNew(changes.added, id) = (IF RenamedTo(id) = {} THEN 1 ELSE 0)
        /\ changes.hasChanges <=>
               (changes.added # <<>> \/ changes.removed # <<>> \/ changes.renamed # <<>>)

\* one pass with a rename, a removal and an addition
C13_Witness ==
    /\ pc = "detected"
    /\ existing.state = "ok"
    /\ Len(changes.renamed) = 1
    /\ Len(changes.removed) = 1
    /\ Len(changes.added) = 1

\* C14: when the old storage path does not exist or its content cannot be
\* parsed into a structure, detectChanges raises no error and returns the
\* empty report, whatever the new requirements are.
C14_EmptyReportWithoutOldStructure ==
    (pc = "detected" /\ existing.state # "ok") => changes = EmptyReport

\* ------------------------------------------------------------------ Validator
\* A requirement of a structure, as far as the validator reads it:
\*   sourceExists   existsSync(resolve(featureDir, facet.source.file))
\*   sectionExists  facetParser.sectionExists(sourcePath, facet.source.section)
\*   parentId       "" when the requirement has none
MaxStructureFacets == 2
MaxStructureFiles == 3
MaxScannedLinks == 2

ValFacet(id, source, sourceExists, sectionExists, isSubFacet, parentId) ==
    [id |-> id, source |-> source, sourceExists |-> sourceExists,
     sectionExists |-> sectionExists, isSubFacet |-> isSubFacet, parentId |-> parentId]

FacetOk == ValFacet("t:a", "f.md#s", TRUE, TRUE, FALSE, "")
FacetSub == ValFacet("t:a/x", "f.md#s", TRUE, TRUE, TRUE, "t:a")
FacetSubNoSource == ValFacet("t:a/y", "g.md#s", FALSE, FALSE, TRUE, "t:a")
FacetBadId == ValFacet("bad", "f.md#t", TRUE, FALSE, FALSE, "")
FacetNoSource == ValFacet("t:b", "g.md#t", FALSE, FALSE, FALSE, "")

ValFacets == {FacetOk, FacetSub, FacetSubNoSource, FacetBadId, FacetNoSource}

\* this.config.validation
ValidationConfigs == [requireSourceExists : BOOLEAN, requireSectionExists : BOOLEAN]

\* /^[a-zA-Z0-9/_-]+:[a-zA-Z0-9_-]+(?:\/[a-zA-Z0-9_-]+)?$/.test(id): of the
\* ids of the model only "bad" and the path reference "f.md#s" do not match
IsValidFacetId(id) == id \in {"t:a", "t:a/x", "t:a/y", "t:b", "zz"}

\* ref.match(/^(.+\.md)#(.+)$/) and some requirement has that file and section
IsValidPathReference(ref, structs) ==
    /\ ref \in {"f.md#s", "f.md#t", "g.md#s", "g.md#t"}
    /\ \E k \in 1..Len(structs) : \E f \in 1..Len(structs[k].facets) :
           structs[k].facets[f].source = ref

ValError(type, file, id) == [type |-> type, file |-> file, facetId |-> id]

\* the source check: true when the loop body ends at `continue`
SourceMissing(facet, cfg) == cfg.requireSourceExists /\ ~facet.sourceExists

\* the errors one iteration of the loop of validateStructure pushes
FacetErrors(facet, ids, file, cfg) ==
    IF SourceMissing(facet, cfg)
    THEN <<ValError("missing-source", file, facet.id)>>
    ELSE (IF /\ cfg.requireSourceExists
             /\ cfg.requireSectionExists
             /\ ~facet.isSubFacet
             /\ ~facet.sectionExists
          THEN <<ValError("missing-section", file, facet.id)>> ELSE <<>>)
         \o (IF facet.isSubFacet /\ facet.parentId # "" /\ facet.parentId \notin ids
             THEN <<ValError("orphan-subfacet", file, facet.id)>> ELSE <<>>)

\* the warnings one iteration of the loop of validateStructure pushes
FacetWarnings(facet, file, cfg) ==
    IF SourceMissing(facet, cfg) THEN <<>>
    ELSE IF ~IsValidFacetId(facet.id)
         THEN <<ValError("invalid-facet-id", file, facet.id)>> ELSE <<>>

\* IsValid that holds whatever the errors
IsValidAlways(errors) == TRUE

\* valid: errors.length === 0
IsValid(errors) == Len(errors) = 0

RECURSIVE StructureErrors(_, _, _)
StructureErrors(structure, cfg, n) ==
    IF n = 0 THEN <<>>
    ELSE StructureErrors(structure, cfg, n - 1)
         \o FacetErrors(structure.facets[n], IdsOf(structure.facets), structure.file, cfg)

RECURSIVE StructureWarnings(_, _, _)
StructureWarnings(structure, cfg, n) ==
    IF n = 0 THEN <<>>
    ELSE StructureWarnings(structure, cfg, n - 1)
         \o FacetWarnings(structure.facets[n], structure.file, cfg)

ValidateStructure(structure, cfg) ==
    LET errors == StructureErrors(structure, cfg, Len(structure.facets))
    IN [valid |-> IsValid(errors),
        errors |-> errors,
        warnings |-> StructureWarnings(structure, cfg, Len(structure.facets))]

\* the requirements of all structures in the order validate visits them,
\* each with its structure file
RECURSIVE FacetsWithFile(_)
FacetsWithFile(structs) ==
    IF structs = <<>> THEN <<>>
    ELSE LET st == structs[Len(structs)]
         IN FacetsWithFile(SubSeq(structs, 1, Len(structs) - 1))
            \o [k \in 1..Len(st.facets) |-> [file |-> st.file, id |-> st.facets[k].id]]

\* SeenBefore that never remembers an id
SeenBeforeNever(id, seen) == FALSE

\* if (allFacetIds.has(facet.id))
SeenBefore(id, seen) == id \in seen

\* the duplicate-id errors of the first n requirements visited
RECURSIVE DuplicateErrors(_, _)
DuplicateErrors(visited, n) ==
    IF n = 0 THEN <<>>
    ELSE LET rest == DuplicateErrors(visited, n - 1)
             seen == {visited[k].id : k \in 1..(n - 1)}
         IN IF SeenBefore(visited[n].id, seen)
            THEN Append(rest, ValError("duplicate-id", visited[n].file, visited[n].id))
            ELSE rest

RECURSIVE AllStructureErrors(_, _)
AllStructureErrors(structs, cfg) ==
    IF structs = <<>> THEN <<>>
    ELSE AllStructureErrors(SubSeq(structs, 1, Len(structs) - 1), cfg)
         \o ValidateStructure(structs[Len(structs)], cfg).errors

RECURSIVE AllStructureWarnings(_, _)
AllStructureWarnings(structs, cfg) ==
    IF structs = <<>> THEN <<>>
    ELSE AllStructureWarnings(SubSeq(structs, 1, Len(structs) - 1), cfg)
         \o ValidateStructure(structs[Len(structs)], cfg).warnings

\* the ids the Test Links reference, in order, one entry per reference
RECURSIVE References(_)
References(links) ==
    IF links = <<>> THEN <<>>
    ELSE LET link == links[Len(links)]
         IN References(SubSeq(links, 1, Len(links) - 1))
            \o [k \in 1..Len(link.facetIds) |-> [file |-> link.line, id |-> link.facetIds[k]]]

\* the warnings for references that resolve to no requirement
RECURSIVE UnknownReferenceWarnings(_, _, _)
UnknownReferenceWarnings(refs, structs, n) ==
    IF n = 0 THEN <<>>
    ELSE LET rest == UnknownReferenceWarnings(refs, structs, n - 1)
             visited == FacetsWithFile(structs)
             allFacetIds == {visited[k].id : k \in 1..Len(visited)}
         IN IF refs[n].id \notin allFacetIds /\ ~IsValidPathReference(refs[n].id, structs)
            THEN Append(rest, ValError("orphan-test", refs[n].file, refs[n].id))
            ELSE rest

\* the warnings for requirements no Test Link references: allFacetIds in
\* insertion order, each with the last structure file that declared it
RECURSIVE UncoveredWarnings(_, _, _)
UncoveredWarnings(visited, referencedIds, n) ==
    IF n = 0 THEN <<>>
    ELSE LET rest == UncoveredWarnings(visited, referencedIds, n - 1)
             id == visited[n].id
             first == \A k \in 1..(n - 1) : visited[k].id # id
             lastFile == visited[CHOOSE k \in 1..Len(visited) :
                                     /\ visited[k].id = id
                                     /\ \A j \in (k + 1)..Len(visited) : visited[j].id # id].file
         IN IF first /\ id \notin referencedIds
            THEN Append(rest, ValError("orphan-test", lastFile, id))
            ELSE rest

ValidateResult(structs, links, cfg) ==
    LET visited == FacetsWithFile(structs)
        refs == References(links)
        errors == DuplicateErrors(visited, Len(visited)) \o AllStructureErrors(structs, cfg)
        warnings == AllStructureWarnings(structs, cfg)
                    \o UnknownReferenceWarnings(refs, structs, Len(refs))
                    \o UncoveredWarnings(visited, {refs[k].id : k \in 1..Len(refs)},
                                         Len(visited))
    IN [valid |-> IsValid(errors), errors |-> errors, warnings |-> warnings]

ToolsIdleButValidation ==
    /\ constName = <<>>
    /\ facetId = <<>>
    /\ existing = <<>>
    /\ newFacets = <<>>
    /\ changes = <<>>
    /\ content = <<>>
    /\ parsed = <<>>
    /\ title = <<>>
    /\ slug = <<>>
    /\ IoIdle

valOthers == <<scannerVars, report, result, run, prevReport, clock, constName, facetId,
               existing, newFacets, changes, content, parsed, title, slug, ioVars>>

\* validateStructure on one structure
InitValidateStructure ==
    /\ lines = <<>>
    /\ scope = <<>>
    /\ i = 0
    /\ braceDepth = 0
    /\ describeStack = <<>>
    /\ describeDepths = <<>>
    /\ pendingFacetIds = <<>>
    /\ pendingFacetLine = -1
    /\ currentTest = <<>>
    /\ currentTestFacetIds = <<>>
    /\ testLinks = <<>>
    /\ hist = HistInit
    /\ structures = <<[file |-> 1, facets |-> <<>>]>>
    /\ config \in ValidationConfigs
    /\ report = <<>>
    /\ result = <<>>
    /\ run = 0
    /\ prevReport = <<>>
    /\ clock = 0
    /\ ToolsIdleButValidation
    /\ validation = <<>>
    /\ pc = "structure"

\* a requirement of the structure (ids are unique within a structure)
AddValFacet ==
    /\ pc = "structure"
    /\ Len(structures[1].facets) < MaxStructureFacets
    /\ \E f \in ValFacets :
         /\ f.id \notin IdsOf(structures[1].facets)
         /\ structures' = [structures EXCEPT ![1].facets = Append(@, f)]
    /\ UNCHANGED <<pc, valOthers, testLinks, config, validation>>

\* validator.validateStructure(structure, structureFile, cwd)
ValidateStructureCall ==
    /\ pc = "structure"
    /\ validation' = ValidateStructure(structures[1], config)
    /\ pc' = "structureValidated"
    /\ UNCHANGED <<valOthers, testLinks, config, structures>>

NextValidateStructure ==
    \/ AddValFacet
    \/ ValidateStructureCall

SpecValidateStructure == InitValidateStructure /\ [][NextValidateStructure]_vars

\* the orphan-subfacet errors carrying id
OrphanErrors(id) ==
    {k \in 1..Len(validation.errors) :
        validation.errors[k].type = "orphan-subfacet" /\ validation.errors[k].facetId = id}

\* C15: validateStructure reports exactly one orphan-subfacet error, with
\* the sub-requirement's own id, for every sub-requirement whose parentId is
\* no id of the same structure, whatever the other checks on it give, and
\* none for a sub-requirement whose parent is in the structure.
C15_OneOrphanErrorPerOrphan ==
    pc = "structureValidated" =>
        \A k \in 1..Len(structures[1].facets) :
            LET facet == structures[1].facets[k]
                orphan == /\ facet.isSubFacet
                          /\ facet.parentId # ""
                          /\ facet.parentId \notin IdsOf(structures[1].facets)
            IN Cardinality(OrphanErrors(facet.id)) = (IF orphan THEN 1 ELSE 0)

\* ------------------------------------------------------- Validator.validate
\* the structure files validate can find
StructureFixtures ==
    { <<FacetOk>>,
      <<FacetOk, FacetSub>>,
      <<FacetSub, FacetSubNoSource>>,
      <<FacetBadId, FacetNoSource>> }

\* the facetIds of the Test Links scanAllTests can return
ScannedIdSeqs == {<<"t:a">>, <<"zz">>, <<"f.md#t">>}

InitValidate ==
    /\ lines = <<>>
    /\ scope = <<>>
    /\ i = 0
    /\ braceDepth = 0
    /\ describeStack = <<>>
    /\ describeDepths = <<>>
    /\ pendingFacetIds = <<>>
    /\ pendingFacetLine = -1
    /\ currentTest = <<>>
    /\ currentTestFacetIds = <<>>
    /\ testLinks = <<>>
    /\ hist = HistInit
    /\ structures = <<>>
    /\ config \in ValidationConfigs
    /\ report = <<>>
    /\ result = <<>>
    /\ run = 0
    /\ prevReport = <<>>
    /\ clock = 0
    /\ ToolsIdleButValidation
    /\ validation = <<>>
    /\ pc = "files"

\* readAllStructures finds one more structure file
AddStructureFile ==
    /\ pc = "files"
    /\ Len(structures) < MaxStructureFiles
    /\ \E fs \in StructureFixtures :
         structures' = Append(structures, [file |-> Len(structures) + 1, facets |-> fs])
    /\ UNCHANGED <<pc, valOthers, testLinks, config, validation>>

\* scanAllTests returns one more Test Link
AddScannedLink ==
    /\ pc = "files"
    /\ Len(testLinks) < MaxScannedLinks
    /\ \E ids \in ScannedIdSeqs :
         testLinks' = Append(testLinks,
                             MkLink(Len(testLinks) + 1, <<Len(testLinks) + 1>>, ids))
    /\ UNCHANGED <<pc, valOthers, structures, config, validation>>

\* validator.validate(cwd)
Validate ==
    /\ pc = "files"
    /\ validation' = ValidateResult(structures, testLinks, config)
    /\ pc' = "validated"
    /\ UNCHANGED <<valOthers, structures, testLinks, config>>

NextValidate ==
    \/ AddStructureFile
    \/ AddScannedLink
    \/ Validate

SpecValidate == InitValidate /\ [][NextValidate]_vars

\* the structure files (by number) that declare the requirement id
FilesDeclaring(id) ==
    {k \in 1..Len(structures) : id \in IdsOf(structures[k].facets)}

DeclaredIds == UNION {IdsOf(structures[k].facets) : k \in 1..Len(structures)}

DuplicateIdErrors(id) ==
    {k \in 1..Len(validation.errors) :
        validation.errors[k].type = "duplicate-id" /\ validation.errors[k].facetId = id}

\* C16: a requirement id that occurs in k >= 2 structures produces exactly
\* k - 1 duplicate-id errors, one for every structure file in which it is
\* seen again and none for the first that declared it; an id of one
\* structure produces none; any duplicate makes the result invalid.
C16_DuplicateIds ==
    pc = "validated" =>
        \A id \in DeclaredIds :
            LET files == FilesDeclaring(id)
                first == CHOOSE k \in files : \A j \in files : k <= j
                errs == DuplicateIdErrors(id)
            IN /\ Cardinality(errs) = Cardinality(files) - 1
               /\ {validation.errors[e].file : e \in errs} = files \ {first}
               /\ Cardinality(files) >= 2 => ~validation.valid

\* the same requirement declared by three structure files
C16_Witness ==
    /\ pc = "validated"
    /\ \E id \in DeclaredIds :
         /\ Cardinality(FilesDeclaring(id)) = 3
         /\ Cardinality(DuplicateIdErrors(id)) = 2

ErrorTypes == {"missing-source", "missing-section", "duplicate-id", "orphan-subfacet"}

\* some must-fix finding exists: a missing source, a missing section, an id
\* declared by two structures or a sub-requirement without its parent
HasMustFixFinding ==
    \/ \E id \in DeclaredIds : Cardinality(FilesDeclaring(id)) >= 2
    \/ \E k \in 1..Len(structures) : \E f \in 1..Len(structures[k].facets) :
         LET facet == structures[k].facets[f]
         IN \/ config.requireSourceExists /\ ~facet.sourceExists
            \/ /\ config.requireSourceExists
               /\ config.requireSectionExists
               /\ facet.sourceExists
               /\ ~facet.isSubFacet
               /\ ~facet.sectionExists
            \/ /\ facet.isSubFacet
               /\ facet.parentId # ""
               /\ facet.parentId \notin IdsOf(structures[k].facets)

HasFinding(list, type, id) ==
    \E k \in 1..Len(list) : list[k].type = type /\ list[k].facetId = id

ReferencedIds == UNION {Range(testLinks[k].facetIds) : k \in 1..Len(testLinks)}

\* C17: valid holds iff the errors list is empty; only missing-source,
\* missing-section, duplicate-id and orphan-subfacet findings are errors; a
\* non-conforming id, a test reference that resolves to no requirement and
\* a requirement referenced by no test are warnings and leave valid alone.
C17_ValidIffNoErrors ==
    pc = "validated" =>
        /\ validation.valid <=> validation.errors = <<>>
        /\ validation.valid <=> ~HasMustFixFinding
        /\ \A k \in 1..Len(validation.errors) : validation.errors[k].type \in ErrorTypes
        /\ \A k \in 1..Len(validation.warnings) :
               validation.warnings[k].type \in {"invalid-facet-id", "orphan-test"}
        /\ \A id \in DeclaredIds :
               /\ id \notin ReferencedIds <=>
                      \E k \in 1..Len(validation.warnings) :
                          /\ validation.warnings[k].type = "orphan-test"
                          /\ validation.warnings[k].facetId = id
               /\ HasFinding(validation.warnings, "invalid-facet-id", id)
                      => ~IsValidFacetId(id)
               /\ ~HasFinding(validation.errors, "invalid-facet-id", id)
        /\ \A id \in ReferencedIds \ DeclaredIds :
               ~IsValidPathReference(id, structures)
                   => HasFinding(validation.warnings, "orphan-test", id)

\* a valid result that carries the three kinds of warning
C17_Witness ==
    /\ pc = "validated"
    /\ validation.valid
    /\ HasFinding(validation.warnings, "invalid-facet-id", "bad")
    /\ HasFinding(validation.warnings, "orphan-test", "zz")
    /\ HasFinding(validation.warnings, "orphan-test", "t:b")

\* ------------------------------------------------------- FacetParser.slugify
\* A title is a sequence of characters, one of each class the regular
\* expressions of slugify tell apart:
\*   "A" an upper-case letter      "a" a lower-case letter or a digit
\*   "_" the underscore (\w)       " " white space (\s)
\*   "-" the hyphen                "!" any other character
MaxTitleLen == 5

TitleChars == {"A", "a", "_", " ", "-", "!"}

\* .toLowerCase()
LowerCase(t) == [k \in 1..Len(t) |-> IF t[k] = "A" THEN "a" ELSE t[k]]

\* .trim()
RECURSIVE TrimStart(_)
TrimStart(t) ==
    IF t # <<>> /\ t[1] = " " THEN TrimStart(SubSeq(t, 2, Len(t))) ELSE t

RECURSIVE TrimEnd(_)
TrimEnd(t) ==
    IF t # <<>> /\ t[Len(t)] = " " THEN TrimEnd(SubSeq(t, 1, Len(t) - 1)) ELSE t

Trim(t) == TrimEnd(TrimStart(t))

\* .replace(/[^\w\s-]/g, '')
RemoveSpecial(t) == SelectSeq(t, LAMBDA c : c \in {"A", "a", "_", " ", "-"})

\* .replace(/\s+/g, '-'): every maximal run of white space becomes one hyphen
RECURSIVE SpacesToHyphen(_)
SpacesToHyphen(t) ==
    IF t = <<>> THEN <<>>
    ELSE LET init == SpacesToHyphen(SubSeq(t, 1, Len(t) - 1))
             c == t[Len(t)]
         IN IF c # " " THEN Append(init, c)
            ELSE IF Len(t) > 1 /\ t[Len(t) - 1] = " " THEN init
            ELSE Append(init, "-")

\* CollapseHyphens that leaves runs of hyphens alone
CollapseHyphensNot(t) == t

\* .replace(/-+/g, '-')
RECURSIVE CollapseHyphens(_)
CollapseHyphens(t) ==
    IF t = <<>> THEN <<>>
    ELSE LET init == CollapseHyphens(SubSeq(t, 1, Len(t) - 1))
             c == t[Len(t)]
         IN IF c = "-" /\ init # <<>> /\ init[Len(init)] = "-" THEN init
            ELSE Append(init, c)

\* .replace(/^-|-$/g, ''): one hyphen at the start and one at the end
StripHyphens(t) ==
    LET a == IF t # <<>> /\ t[1] = "-" THEN SubSeq(t, 2, Len(t)) ELSE t
    IN IF a # <<>> /\ a[Len(a)] = "-" THEN SubSeq(a, 1, Len(a) - 1) ELSE a

Slugify(t) ==
    StripHyphens(CollapseHyphens(SpacesToHyphen(RemoveSpecial(Trim(LowerCase(t))))))

InitSlug ==
    /\ CoreIdle
    /\ pc = "title"
    /\ constName = <<>>
    /\ facetId = <<>>
    /\ existing = <<>>
    /\ newFacets = <<>>
    /\ changes = <<>>
    /\ validation = <<>>
    /\ content = <<>>
    /\ parsed = <<>>
    /\ title = <<>>
    /\ slug = <<>>
    /\ IoIdle

\* the next character of a heading title
AppendChar ==
    /\ pc = "title"
    /\ Len(title) < MaxTitleLen
    /\ \E c \in TitleChars : title' = Append(title, c)
    /\ UNCHANGED <<pc, coreVars, constName, facetId, existing, newFacets, changes,
                   validation, content, parsed, slug, ioVars>>

\* FacetParser.slugify(title), and slugify of its result
SlugifyTitle ==
    /\ pc = "title"
    /\ slug' = [once |-> Slugify(title), twice |-> Slugify(Slugify(title))]
    /\ pc' = "slugified"
    /\ UNCHANGED <<coreVars, constName, facetId, existing, newFacets, changes,
                   validation, content, parsed, title, ioVars>>

NextSlug ==
    \/ AppendChar
    \/ SlugifyTitle

SpecSlug == InitSlug /\ [][NextSlug]_vars

\* C20: slugify(slugify(x)) = slugify(x) for every title x, and slugify(x)
\* is lower-case, without white space, without two consecutive hyphens and
\* without a hyphen at its start or end.
C20_SlugifyIdempotent ==
    pc = "slugified" =>
        /\ slug.twice = slug.once
        /\ \A k \in 1..Len(slug.once) : slug.once[k] \in {"a", "_", "-"}
        /\ \A k \in 1..(Len(slug.once) - 1) :
               ~(slug.once[k] = "-" /\ slug.once[k + 1] = "-")
        /\ slug.once # <<>> => (slug.once[1] # "-" /\ slug.once[Len(slug.once)] # "-")

\* a title with an upper-case letter, a special character and white space
\* next to a hyphen, slugified to "a-a"
C20_Witness ==
    /\ pc = "slugified"
    /\ slug.once = <<"a", "-", "a">>
    /\ "A" \in Range(title)
    /\ "!" \in Range(title)
    /\ \E k \in 1..(Len(title) - 1) : title[k] = " " /\ title[k + 1] = "-"

\* -------------------------------------------------- FacetParser.parseContent
\* A line of a markdown document is what the patterns of the parser see of
\* it: whether it is a heading (/^(#{1,6})\s+(.+?)\s*$/), blank
\* (trim() === ''), a standalone empty anchor (explicitIdPattern), and the
\* ids of its comment markers and of its empty-anchor links, in order.  An
\* id ([a-z0-9-]+) is a sequence of characters, like a slug.
MaxDocLines == 4

HeadingLevels == {1, 6}
HeadingTitle == <<"A", " ", "a">>

DocLine(kind, level, t, comments, links) ==
    [kind |-> kind, level |-> level, title |-> t, comments |-> comments, links |-> links]

\* lines with markers that are not standalone anchors:
\* "<!-- @facet:x -->" and "text <!-- @facet:y --> [](#x)"
MarkerLines ==
    { DocLine("text", 0, <<>>, << <<"x">> >>, <<>>),
      DocLine("text", 0, <<>>, << <<"y">> >>, << <<"x">> >>) }

\* the heading lines of the document, in order (first pass)
Headings(ls) ==
    SelectSeq([k \in 1..Len(ls) |-> k], LAMBDA k : ls[k].kind = "heading")

\* for (j = i + 1; ...) { if (nextLine.trim() === '') continue; ...; break }:
\* the first line from j on that is not blank, 0 if there is none
RECURSIVE FirstNonBlank(_, _)
FirstNonBlank(ls, j) ==
    IF j > Len(ls) THEN 0
    ELSE IF ls[j].kind = "blank" THEN FirstNonBlank(ls, j + 1)
    ELSE j

\* explicitId of the heading on line h, <<>> for undefined
ExplicitId(ls, h) ==
    LET j == FirstNonBlank(ls, h + 1)
    IN IF j # 0 /\ ls[j].kind = "anchor" THEN ls[j].links[1] ELSE <<>>

\* lines.slice(start, end)
Slice(ls, start, end) == SubSeq(ls, start + 1, end)

Marker(id, line, type) == [id |-> id, line |-> line, type |-> type]

\* parseSubFacets(lines, startLineNumber), for the first n lines
RECURSIVE ParseSubFacets(_, _, _)
ParseSubFacets(ls, startLineNumber, n) ==
    IF n = 0 THEN <<>>
    ELSE LET line == ls[n]
             lineNumber == startLineNumber + n - 1
         IN ParseSubFacets(ls, startLineNumber, n - 1)
            \o [k \in 1..Len(line.comments) |-> Marker(line.comments[k], lineNumber, "comment")]
            \o [k \in 1..Len(line.links) |-> Marker(line.links[k], lineNumber, "link")]

\* SectionSlug that never uses the explicit id
SectionSlugFromTitle(explicitId, t) == Slugify(t)

\* heading.explicitId || FacetParser.slugify(heading.title)
SectionSlug(explicitId, t) == IF explicitId # <<>> THEN explicitId ELSE Slugify(t)

\* the section of the k-th heading (second pass)
Section(ls, k) ==
    LET headings == Headings(ls)
        startLine == headings[k]
        endLine == IF k < Len(headings) THEN headings[k + 1] - 1 ELSE Len(ls)
        contentLines == Slice(ls, startLine, endLine - 1)
        explicitId == ExplicitId(ls, startLine)
        subFacets == ParseSubFacets(contentLines, startLine + 1, Len(contentLines))
    IN [title |-> ls[startLine].title,
        slug |-> SectionSlug(explicitId, ls[startLine].title),
        level |-> ls[startLine].level,
        startLine |-> startLine,
        endLine |-> endLine,
        explicitId |-> explicitId,
        subFacets |-> IF explicitId # <<>>
                      THEN SelectSeq(subFacets, LAMBDA sf : sf.id # explicitId)
                      ELSE subFacets]

ParseContentSections(ls) == [k \in 1..Len(Headings(ls)) |-> Section(ls, k)]

InitParse ==
    /\ CoreIdle
    /\ pc = "doc"
    /\ constName = <<>>
    /\ facetId = <<>>
    /\ existing = <<>>
    /\ newFacets = <<>>
    /\ changes = <<>>
    /\ validation = <<>>
    /\ content = <<>>
    /\ parsed = <<>>
    /\ title = <<>>
    /\ slug = <<>>
    /\ IoIdle

CanWriteDoc == pc = "doc" /\ Len(content) < MaxDocLines

WriteDoc(l) ==
    /\ content' = Append(content, l)
    /\ UNCHANGED <<pc, coreVars, constName, facetId, existing, newFacets, changes,
                   validation, parsed, title, slug, ioVars>>

\* "## A a"
WriteHeading ==
    /\ CanWriteDoc
    /\ \E level \in HeadingLevels : WriteDoc(DocLine("heading", level, HeadingTitle, <<>>, <<>>))

\* an empty or white-space line
WriteBlank ==
    /\ CanWriteDoc
    /\ WriteDoc(DocLine("blank", 0, <<>>, <<>>, <<>>))

\* "[](#x)" on a line of its own
WriteAnchor ==
    /\ CanWriteDoc
    /\ WriteDoc(DocLine("anchor", 0, <<>>, <<>>, << <<"x">> >>))

\* a line with sub-requirement markers
WriteMarkers ==
    /\ CanWriteDoc
    /\ \E l \in MarkerLines : WriteDoc(l)

\* a line of prose
WriteText ==
    /\ CanWriteDoc
    /\ WriteDoc(DocLine("text", 0, <<>>, <<>>, <<>>))

\* parser.parseContent(content): content.split('\n') has at least one line
ParseContent ==
    /\ pc = "doc"
    /\ content # <<>>
    /\ parsed' = ParseContentSections(content)
    /\ pc' = "parsed"
    /\ UNCHANGED <<coreVars, constName, facetId, existing, newFacets, changes,
                   validation, content, title, slug, ioVars>>

NextParse ==
    \/ WriteHeading
    \/ WriteBlank
    \/ WriteAnchor
    \/ WriteMarkers
    \/ WriteText
    \/ ParseContent

SpecParse == InitParse /\ [][NextParse]_vars

HeadingLines == {h \in 1..Len(content) : content[h].kind = "heading"}

\* the line of the k-th heading of the document
KthHeading(k) ==
    CHOOSE h \in HeadingLines : Cardinality({g \in HeadingLines : g <= h}) = k

\* the standalone anchor lines that are the first non-blank line after line h
AnchorAfter(h) ==
    {j \in (h + 1)..Len(content) :
        /\ content[j].kind = "anchor"
        /\ \A m \in (h + 1)..(j - 1) : content[m].kind = "blank"}

CountMarkers(list, id, line, type) ==
    Cardinality({k \in 1..Len(list) :
                    list[k].id = id /\ list[k].line = line /\ list[k].type = type})

\* C19: the markers of a section are one marker per occurrence of a comment
\* marker or an empty-anchor link on every line after the heading up to and
\* including the section's last line (the line before the next heading, or
\* the last line of the document), except the heading's explicit-anchor
\* line; each carries its pattern kind and its 1-based line number, in
\* non-decreasing line order.
C19_MarkersOfSection ==
    pc = "parsed" =>
        \A k \in 1..Len(parsed) :
            LET h == KthHeading(k)
                last == IF k < Len(parsed) THEN KthHeading(k + 1) - 1 ELSE Len(content)
                scanned == ((h + 1)..last) \ AnchorAfter(h)
                markers == parsed[k].subFacets
            IN /\ \A l \in 1..Len(content) : \A id \in {<<"x">>, <<"y">>} :
                    /\ CountMarkers(markers, id, l, "comment") =
                           (IF l \in scanned THEN Occurrences(content[l].comments, id) ELSE 0)
                    /\ CountMarkers(markers, id, l, "link") =
                           (IF l \in scanned THEN Occurrences(content[l].links, id) ELSE 0)
               /\ \A a, b \in 1..Len(markers) : a < b => markers[a].line <= markers[b].line

\* ------------------------------------------------- the documented link formats
\* Requirements as the structure files record them (id, type, source) and
\* Test Links whose facetIds are written in any of the documented formats:
\* the id of a requirement, or the direct path 'document.md#section'.
SourcedFacets ==
    { [id |-> "t:a", type |-> "dx", source |-> "f.md#s"],
      [id |-> "t:b", type |-> "ux", source |-> "f.md#t"],
      [id |-> "u:a", type |-> "ux", source |-> "g.md#s"] }

LinkFormats == {<<"t:a">>, <<"f.md#s">>, <<"f.md#t", "t:a">>, <<"g.md#t">>}

InitFormats ==
    /\ CoreIdle
    /\ ToolsIdle
    /\ pc = "input"

\* a requirement of the last structure, with its recorded source
AddSourcedFacet ==
    /\ pc = "input"
    /\ structures # <<>>
    /\ TotalFacets < MaxFacets
    /\ \E f \in SourcedFacets :
         LET last == structures[Len(structures)]
         IN /\ \A k \in 1..Len(last.facets) : last.facets[k].id # f.id
            /\ structures' = [structures EXCEPT ![Len(structures)].facets = Append(@, f)]
    /\ UNCHANGED <<toolVars, scannerVars, pc, testLinks, config, report, result, run, prevReport, clock>>

\* a Test Link returned by the scanner: the strings of the annotation, as written
AddFormatLink ==
    /\ pc = "input"
    /\ Len(testLinks) < MaxLinks
    /\ \E ids \in LinkFormats :
         testLinks' = Append(testLinks,
                             MkLink(Len(testLinks) + 1, <<Len(testLinks) + 1>>, ids))
    /\ UNCHANGED <<toolVars, scannerVars, pc, structures, config, report, result, run, prevReport, clock>>

NextFormats ==
    \/ AddStructure
    \/ AddSourcedFacet
    \/ AddFormatLink
    \/ CalculateCoverage

SpecFormats == InitFormats /\ [][NextFormats]_vars

\* some Test Link references the requirement, by its id or by the direct
\* path of its recorded source
ReferencedInAnyFormat(facet) ==
    \E k \in 1..Len(testLinks) :
        \/ facet.id \in Range(testLinks[k].facetIds)
        \/ \E r \in Range(testLinks[k].facetIds) :
               r = facet.source /\ IsValidPathReference(r, structures)

\* C21: a requirement that a Test Link references through the direct path
\* form 'document.md#section' matching its recorded source file and section
\* is counted as covered in the report, just as when the link holds its id.
C21_PathReferenceCovers ==
    pc = "reported" =>
        \A s \in 1..Len(report.features) :
            \A k \in 1..Len(report.features[s].facets) :
                LET fc == report.features[s].facets[k]
                IN ReferencedInAnyFormat(fc.facet) => fc.covered

\* ------------------------------------------- headings and fenced code blocks
\* "```": a code fence; no pattern of parseContent matches it
WriteFence ==
    /\ CanWriteDoc
    /\ WriteDoc(DocLine("fence", 0, <<>>, <<>>, <<>>))

NextFence ==
    \/ WriteHeading
    \/ WriteBlank
    \/ WriteAnchor
    \/ WriteMarkers
    \/ WriteText
    \/ WriteFence
    \/ ParseContent

SpecFence == InitParse /\ [][NextFence]_vars

\* line l lies inside a fenced code block: an odd number of fences precede it
InsideFence(l) ==
    /\ content[l].kind # "fence"
    /\ Cardinality({f \in 1..(l - 1) : content[f].kind = "fence"}) % 2 = 1

HeadingsOutsideFences == {h \in HeadingLines : ~InsideFence(h)}

\* C22: a line with heading syntax inside a fenced code block produces no
\* section: the sections are exactly the headings outside code fences.
C22_NoSectionInsideFence ==
    pc = "parsed" =>
        /\ {parsed[k].startLine : k \in 1..Len(parsed)} = HeadingsOutsideFences
        /\ Len(parsed) = Cardinality(HeadingsOutsideFences)

\* ------------------------------------------------------------ StructureReader
\* A discovered structure file is what readStructure can find at its path:
\*   "missing"    existsSync(filePath) is false
\*   "invalid"    JSON.parse throws
\*   "null"       the JSON text null
\*   "nofeature"  an object without (or with a falsy) feature
\*   "nofacets"   an object with a feature whose facets is not an array
\*   "ok"         an object with a feature and a facets array
\* A requirement holds its id, source.file, source.section and type; "" is a
\* field that is absent or falsy.  The path of a file is its place in the
\* list of discovered files (findStructureFiles returns each path once).
MaxReadFiles == 2
MaxReadFacets == 2

FileStates == {"missing", "invalid", "null", "nofeature", "nofacets", "ok"}

ReadFacet(id, file, section, type) ==
    [id |-> id, file |-> file, section |-> section, type |-> type]

ReadFacets ==
    { ReadFacet("t:a", "f.md", "s", "dx"),
      ReadFacet("t:b", "f.md", "t", "ux"),
      ReadFacet("", "f.md", "s", "dx"),
      ReadFacet("t:c", "", "s", "dx"),
      ReadFacet("t:d", "f.md", "", "dx"),
      ReadFacet("t:e", "f.md", "s", "") }

\* new Error(message): the message names the failed check and holds the path;
\* a TypeError raised by the engine holds no path (path 0)
ReadError(name, message, path) == [name |-> name, message |-> message, path |-> path]

\* the throw of the loop of validateStructure at the first n requirements, <<>> if none
RECURSIVE FacetsError(_, _, _)
FacetsError(facets, path, n) ==
    IF n = 0 THEN <<>>
    ELSE LET before == FacetsError(facets, path, n - 1)
             facet == facets[n]
         IN IF before # <<>> THEN before
            ELSE IF facet.id = "" THEN <<ReadError("Error", "missing id", path)>>
            ELSE IF \E k \in 1..(n - 1) : facets[k].id = facet.id
                 THEN <<ReadError("Error", "duplicate id", path)>>
            ELSE IF facet.file = "" THEN <<ReadError("Error", "missing source.file", path)>>
            ELSE IF facet.section = "" THEN <<ReadError("Error", "missing source.section", path)>>
            ELSE IF facet.type = "" THEN <<ReadError("Error", "missing type", path)>>
            ELSE <<>>

\* StructureReader.validateStructure(structure, filePath): the error thrown, <<>> if none
ReaderValidateStructure(file, path) ==
    IF file.state = "null"
    THEN <<ReadError("TypeError", "property of null", 0)>>
    ELSE IF file.state = "nofeature" THEN <<ReadError("Error", "missing feature", path)>>
    ELSE IF file.state = "nofacets" THEN <<ReadError("Error", "missing facets", path)>>
    ELSE FacetsError(file.facets, path, Len(file.facets))

\* readStructure(filePath): the error thrown, <<>> if the structure is returned
ReadStructureError(file, path) ==
    IF file.state = "missing" THEN <<ReadError("Error", "not found", path)>>
    ELSE IF file.state = "invalid" THEN <<ReadError("Error", "invalid JSON", path)>>
    ELSE ReaderValidateStructure(file, path)

\* readStructure(filePath) when nothing is thrown: facets.map copies every requirement
ReadStructure(file, path) ==
    [file |-> path, facets |-> [k \in 1..Len(file.facets) |-> file.facets[k]]]

\* the first n files read by the loop of readAllStructures
RECURSIVE ReadFiles(_, _)
ReadFiles(fs, n) ==
    IF n = 0 THEN [threw |-> FALSE, error |-> <<>>, structures |-> <<>>]
    ELSE LET before == ReadFiles(fs, n - 1)
             error == ReadStructureError(fs[n], n)
         IN IF before.threw THEN before
            ELSE IF error # <<>>
                 THEN [threw |-> TRUE, error |-> error, structures |-> <<>>]
            ELSE [before EXCEPT !.structures = Append(@, ReadStructure(fs[n], n))]

ReadAllStructures(fs) == ReadFiles(fs, Len(fs))

InitRead ==
    /\ CoreIdle
    /\ pc = "discover"
    /\ ToolsIdle

readOthers == <<coreVars, constName, facetId, existing, newFacets, changes, validation,
                content, parsed, title, slug, reporterVars, serverVars>>

\* findStructureFiles returns one more path
DiscoverFile ==
    /\ pc = "discover"
    /\ Len(discovered) < MaxReadFiles
    /\ \E st \in FileStates :
         discovered' = Append(discovered, [state |-> st, facets |-> <<>>])
    /\ UNCHANGED <<pc, readOthers, readResult>>

\* the facets array of the last file holds one more requirement
AddReadFacet ==
    /\ pc = "discover"
    /\ discovered # <<>>
    /\ discovered[Len(discovered)].state = "ok"
    /\ Len(discovered[Len(discovered)].facets) < MaxReadFacets
    /\ \E f \in ReadFacets :
         discovered' = [discovered EXCEPT ![Len(discovered)].facets = Append(@, f)]
    /\ UNCHANGED <<pc, readOthers, readResult>>

\* reader.readAllStructures(cwd)
ReadAll ==
    /\ pc = "discover"
    /\ readResult' = ReadAllStructures(discovered)
    /\ pc' = "read"
    /\ UNCHANGED <<readOthers, discovered>>

NextRead ==
    \/ DiscoverFile
    \/ AddReadFacet
    \/ ReadAll

SpecRead == InitRead /\ [][NextRead]_vars

\* the file is missing, no valid JSON, or lacks one of the required fields,
\* or repeats an id
Defective(file) ==
    \/ file.state # "ok"
    \/ \E k \in 1..Len(file.facets) :
           \/ file.facets[k].id = ""
           \/ file.facets[k].file = ""
           \/ file.facets[k].section = ""
           \/ file.facets[k].type = ""
           \/ \E j \in 1..(k - 1) : file.facets[j].id = file.facets[k].id

DefectiveFiles == {k \in 1..Len(discovered) : Defective(discovered[k])}

\* readAllStructures returns everything or nothing
AllOrNothing ==
    pc = "read" =>
        IF DefectiveFiles # {}
        THEN readResult.threw /\ readResult.structures = <<>>
        ELSE /\ ~readResult.threw
             /\ Len(readResult.structures) = Len(discovered)
             /\ \A k \in 1..Len(discovered) :
                    /\ readResult.structures[k].file = k
                    /\ readResult.structures[k].facets = discovered[k].facets

\* C23: readAllStructures is all-or-nothing: with a defective file among the
\* discovered ones it raises an error whose message carries the path of such
\* a file and returns no structures; otherwise it returns one structure per
\* discovered file with its requirements unchanged.
C23_AllOrNothingWithPath ==
    /\ AllOrNothing
    /\ (pc = "read" /\ DefectiveFiles # {}) =>
           readResult.error[1].path \in DefectiveFiles

\* ------------------------------------------------------ FacetCoverageReporter
\* A test of the run is its declaration line, the ids of its facet annotation,
\* whether the static scanner finds that annotation in the source text
\* (scanned) and the status it ended with.  All tests are in one file.
MaxTests == 2

TestStatuses == {"passed", "failed", "timedOut", "skipped", "interrupted"}

InitReporter ==
    /\ lines = <<>>
    /\ scope = <<>>
    /\ i = 0
    /\ braceDepth = 0
    /\ describeStack = <<>>
    /\ describeDepths = <<>>
    /\ pendingFacetIds = <<>>
    /\ pendingFacetLine = -1
    /\ currentTest = <<>>
    /\ currentTestFacetIds = <<>>
    /\ testLinks = <<>>
    /\ hist = HistInit
    /\ structures = FixtureStructures
    /\ config = DefaultThresholds
    /\ report = <<>>
    /\ result = <<>>
    /\ run = 0
    /\ prevReport = <<>>
    /\ clock = 0
    /\ ToolsIdle
    /\ pc = "constructed"

reporterOthers == <<scannerVars, structures, config, result, prevReport,
                    constName, facetId, existing, newFacets, changes, validation,
                    content, parsed, title, slug, readerVars, serverVars>>

\* onBegin(config, suite)
OnBegin ==
    /\ pc = "constructed"
    /\ reporterLinks' = <<>>
    /\ pc' = "running"
    /\ UNCHANGED <<reporterOthers, testLinks, report, run, clock, executed>>

\* onTestEnd(test, result): only a passed test adds a link
OnTestEnd ==
    /\ pc = "running"
    /\ Len(executed) < MaxTests
    /\ \E ids \in LinkIdSeqs, scanned \in BOOLEAN, status \in TestStatuses :
         LET line == Len(executed) + 1
         IN /\ executed' = Append(executed, [line |-> line, facetIds |-> ids,
                                             scanned |-> scanned, status |-> status])
            /\ reporterLinks' = IF status # "passed" THEN reporterLinks
                                ELSE Append(reporterLinks, MkLink(line, <<line>>, ids))
    /\ UNCHANGED <<reporterOthers, pc, testLinks, report, run, clock>>

\* scanAllTestsWithUnlinked(rootDir).linkedTests: the annotations in the source text
RECURSIVE ScannedLinks(_)
ScannedLinks(tests) ==
    IF tests = <<>> THEN <<>>
    ELSE LET rest == ScannedLinks(SubSeq(tests, 1, Len(tests) - 1))
             test == tests[Len(tests)]
         IN IF test.scanned THEN Append(rest, MkLink(test.line, <<test.line>>, test.facetIds))
            ELSE rest

\* the loop of calculateCoverageWithLinks: push the collected links the scan did not find
MergeLinks(tests, collected) ==
    tests \o SelectSeq(collected,
                       LAMBDA link : \A k \in 1..Len(tests) : tests[k].line # link.line)

\* calculateCoverageWithLinks(calculator)
CalculateCoverageWithLinks(structs, tests, collected, now) ==
    LET rep == CoverageReport(structs, ScannedLinks(tests), now)
    IN [rep EXCEPT !.tests = MergeLinks(rep.tests, collected)]

\* onEnd(result)
OnEnd ==
    /\ pc = "running"
    /\ testLinks' = ScannedLinks(executed)
    /\ report' = CalculateCoverageWithLinks(structures, executed, reporterLinks, clock)
    /\ run' = run + 1
    /\ clock' = clock + 1
    /\ pc' = "ended"
    /\ UNCHANGED <<reporterOthers, executed, reporterLinks>>

NextReporter ==
    \/ OnBegin
    \/ OnTestEnd
    \/ OnEnd

SpecReporter == InitReporter /\ [][NextReporter]_vars

\* some test of the run that ended with status 'passed' references id
PassedTestReferences(id) ==
    \E k \in 1..Len(executed) :
        executed[k].status = "passed" /\ id \in Range(executed[k].facetIds)

\* C24: in the report of the Playwright reporter a requirement is counted as
\* covered only if some test that ended with status 'passed' references it.
C24_CoveredOnlyByPassedTests ==
    pc = "ended" =>
        \A s \in 1..Len(report.features) :
            \A k \in 1..Len(report.features[s].facets) :
                LET fc == report.features[s].facets[k]
                IN fc.covered => PassedTestReferences(fc.facet.id)

\* --------------------------------------------- attribution of in-body calls
\* C25: every annotation call the scanner collects for a test lies on a line
\* strictly after that test's declaration and inside its body (before the
\* line that closes it); after the body has closed, also for a test whose
\* body opens and closes on its declaration line, no later call is collected
\* for it.
C25_CallsCollectedInsideBody ==
    currentTest # <<>> =>
        \A k \in hist.calls :
            /\ k > currentTest[1].line
            /\ Encloses(currentTest[1].line, k)

\* ------------------------------------------------ the section-existence check
\* the missing-section errors carrying id
MissingSectionErrors(id) ==
    {k \in 1..Len(validation.errors) :
        validation.errors[k].type = "missing-section" /\ validation.errors[k].facetId = id}

\* C26: with requireSectionExists enabled, every requirement that is no
\* sub-requirement, whose source document exists and whose section is
\* absent from it produces exactly one missing-section error, whether or
\* not requireSourceExists is enabled; every other requirement, and every
\* sub-requirement, produces none.
C26_MissingSectionErrors ==
    (pc = "structureValidated" /\ config.requireSectionExists) =>
        \A k \in 1..Len(structures[1].facets) :
            LET facet == structures[1].facets[k]
                missing == /\ ~facet.isSubFacet
                           /\ facet.sourceExists
                           /\ ~facet.sectionExists
            IN Cardinality(MissingSectionErrors(facet.id)) = (IF missing THEN 1 ELSE 0)

\* ------------------------------------------------------------ HotReloadManager
\* handleFileChange arms a timer whose callback runs in three steps, split at
\* its awaits: the fire (up to the call of generateCommand, or up to the call
\* of onRefresh when the change was no markdown file), the return or the
\* throw of generateCommand, and the end of onRefresh.  Other callbacks and
\* change events can run while a callback waits.  The event log holds
\*   "markdown" | "other"   a change event handled, by the kind of its path
\*   "regenerate"           generateCommand was called by callback cb
\*   "refresh"              onRefresh was called by callback cb
MaxEvents == 3

DebounceMs == 300

Directories == {"project", "elsewhere"}

\* process.cwd() when the manager starts watching
StartDirectory == "elsewhere"

LogEntry(kind, cb) == [kind |-> kind, cb |-> cb]

ChangeEvents == {m \in 1..Len(eventLog) : eventLog[m].kind \in {"markdown", "other"}}

InitServer ==
    /\ CoreIdle
    /\ constName = <<>>
    /\ facetId = <<>>
    /\ existing = <<>>
    /\ newFacets = <<>>
    /\ changes = <<>>
    /\ validation = <<>>
    /\ content = <<>>
    /\ parsed = <<>>
    /\ title = <<>>
    /\ slug = <<>>
    /\ ReaderIdle
    /\ ReporterIdle
    /\ managerCwd \in Directories
    /\ processCwd = StartDirectory
    /\ debounceTimer = <<>>
    /\ callbacks = <<>>
    /\ eventLog = <<>>
    /\ pc = "watching"

serverOthers == <<pc, coreVars, constName, facetId, existing, newFacets, changes, validation,
                  content, parsed, title, slug, readerVars, reporterVars, managerCwd>>

\* handleFileChange(event, path): the pending timer is cleared and a new one
\* armed whose callback remembers whether this path ends with '.md'
HandleFileChange ==
    /\ Cardinality(ChangeEvents) < MaxEvents
    /\ \E isMarkdownChange \in BOOLEAN :
         /\ debounceTimer' = <<[isMarkdownChange |-> isMarkdownChange, delay |-> DebounceMs]>>
         /\ eventLog' = Append(eventLog,
                               LogEntry(IF isMarkdownChange THEN "markdown" ELSE "other", 0))
    /\ UNCHANGED <<serverOthers, processCwd, callbacks>>

\* the debounce delay has passed: the callback runs up to its first await
TimerFires ==
    /\ debounceTimer # <<>>
    /\ debounceTimer' = <<>>
    /\ LET cb == Len(callbacks) + 1
       IN IF debounceTimer[1].isMarkdownChange
          THEN /\ callbacks' = Append(callbacks, [at |-> "generate", originalCwd |-> processCwd])
               /\ processCwd' = managerCwd
               /\ eventLog' = Append(eventLog, LogEntry("regenerate", cb))
          ELSE /\ callbacks' = Append(callbacks, [at |-> "refresh", originalCwd |-> ""])
               /\ processCwd' = processCwd
               /\ eventLog' = Append(eventLog, LogEntry("refresh", cb))
    /\ UNCHANGED serverOthers

\* generateCommand resolves: the saved directory is restored, onRefresh is called
GenerateReturns ==
    /\ \E cb \in 1..Len(callbacks) :
         /\ callbacks[cb].at = "generate"
         /\ processCwd' = callbacks[cb].originalCwd
         /\ callbacks' = [callbacks EXCEPT ![cb].at = "refresh"]
         /\ eventLog' = Append(eventLog, LogEntry("refresh", cb))
    /\ UNCHANGED <<serverOthers, debounceTimer>>

\* generateCommand rejects: the catch block logs the error, onRefresh is called
GenerateThrows ==
    /\ \E cb \in 1..Len(callbacks) :
         /\ callbacks[cb].at = "generate"
         /\ callbacks' = [callbacks EXCEPT ![cb].at = "refresh"]
         /\ eventLog' = Append(eventLog, LogEntry("refresh", cb))
    /\ UNCHANGED <<serverOthers, debounceTimer, processCwd>>

\* onRefresh settles: the update or the error is broadcast
RefreshEnds ==
    /\ \E cb \in 1..Len(callbacks) :
         /\ callbacks[cb].at = "refresh"
         /\ callbacks' = [callbacks EXCEPT ![cb].at = "done"]
    /\ UNCHANGED <<serverOthers, debounceTimer, processCwd, eventLog>>

NextServer ==
    \/ HandleFileChange
    \/ TimerFires
    \/ GenerateReturns
    \/ GenerateThrows
    \/ RefreshEnds

SpecServer == InitServer /\ [][NextServer]_vars

\* the place in the log where callback cb started
Fire(cb) == CHOOSE f \in 1..Len(eventLog) :
                /\ eventLog[f].cb = cb
                /\ \A g \in 1..(f - 1) : eventLog[g].cb # cb

\* the change events callback cb accounts for: those since the callback before it
AccountedBy(cb) ==
    {m \in ChangeEvents : m < Fire(cb) /\ (cb > 1 => m > Fire(cb - 1))}

\* C27: every markdown change event is followed by a regeneration of the
\* structure before the coverage refresh that accounts for it is started,
\* also when change events for other files follow it within the debounce
\* window.
C27_RegenerateBeforeRefresh ==
    \A r \in 1..Len(eventLog) :
        eventLog[r].kind = "refresh" =>
            \A m \in AccountedBy(eventLog[r].cb) :
                eventLog[m].kind = "markdown" =>
                    \E g \in (m + 1)..(r - 1) : eventLog[g].kind = "regenerate"

\* every debounced refresh has finished
Quiescent ==
    /\ debounceTimer = <<>>
    /\ callbacks # <<>>
    /\ \A cb \in 1..Len(callbacks) : callbacks[cb].at = "done"

\* C28: once every debounced refresh has finished, the process working
\* directory equals its value before the change events, whether the
\* regeneration succeeded or raised an error and whether or not two
\* refreshes overlapped in time.
C28_WorkingDirectoryRestored ==
    Quiescent => processCwd = StartDirectory

\* ------------------------------------------------- percentages of large totals
\* One structure with up to MaxRequirements requirements of one type (ids
\* 1, 2, ...) and one Test Link that references all of them or all but the
\* last few.
MaxRequirements == 200
MaxUncovered == 2

StrictThresholds == [global |-> 100, byType |-> <<[type |-> TypeOrder[1], threshold |-> 100]>>]

InitStrict ==
    /\ lines = <<>>
    /\ scope = <<>>
    /\ pc = "input"
    /\ i = 0
    /\ braceDepth = 0
    /\ describeStack = <<>>
    /\ describeDepths = <<>>
    /\ pendingFacetIds = <<>>
    /\ pendingFacetLine = -1
    /\ currentTest = <<>>
    /\ currentTestFacetIds = <<>>
    /\ testLinks = <<>>
    /\ hist = HistInit
    /\ structures = <<>>
    /\ config = StrictThresholds
    /\ report = <<>>
    /\ result = <<>>
    /\ run = 0
    /\ prevReport = <<>>
    /\ clock = 0
    /\ ToolsIdle

\* readAllStructures returns one structure with total requirements
ReadLargeStructure ==
    /\ pc = "input"
    /\ structures = <<>>
    /\ \E total \in 1..MaxRequirements :
         structures' = <<[feature |-> 1,
                          facets |-> [k \in 1..total |-> [id |-> k, type |-> TypeOrder[1]]]]>>
    /\ UNCHANGED <<toolVars, scannerVars, pc, testLinks, config, report, result, run, prevReport, clock>>

\* the scanner returns one Test Link that leaves the last few requirements out
ScanLargeLink ==
    /\ pc = "input"
    /\ structures # <<>>
    /\ testLinks = <<>>
    /\ \E uncovered \in 0..MaxUncovered :
         /\ uncovered <= Len(structures[1].facets)
         /\ testLinks' = <<MkLink(1, <<1>>,
                                  [k \in 1..(Len(structures[1].facets) - uncovered) |-> k])>>
    /\ UNCHANGED <<toolVars, scannerVars, pc, structures, config, report, result, run, prevReport, clock>>

NextStrict ==
    \/ ReadLargeStructure
    \/ ScanLargeLink
    \/ CalculateCoverage
    \/ CheckThresholds

SpecStrict == InitStrict /\ [][NextStrict]_vars

\* C29: a reported percentage of 100, global, of a type or of a feature,
\* implies that the corresponding number of uncovered requirements is 0, so
\* thresholds of 100 pass only when every requirement concerned is covered.
C29_HundredMeansAllCovered ==
    pc \in {"reported", "checked"} =>
        /\ report.summary.percentage = 100 => report.summary.uncoveredFacets = 0
        /\ \A e \in 1..Len(report.byType) :
               report.byType[e].percentage = 100 =>
                   report.byType[e].covered = report.byType[e].total
        /\ \A f \in 1..Len(report.features) :
               report.features[f].percentage = 100 =>
                   report.features[f].coveredFacets = report.features[f].totalFacets
        /\ (pc = "checked" /\ result.passed) => report.summary.uncoveredFacets = 0

\* --------------------------------------------------- ids that did not change
\* the ids the change report names, as old or as new id of an entry
ReportedIds ==
    {changes.added[k].newId : k \in 1..Len(changes.added)}
    \cup {changes.removed[k].oldId : k \in 1..Len(changes.removed)}
    \cup {changes.renamed[k].oldId : k \in 1..Len(changes.renamed)}
    \cup {changes.renamed[k].newId : k \in 1..Len(changes.renamed)}

\* C30: an id that is present in both the old structure and the new
\* requirements appears in no entry of the change report, neither as oldId
\* nor as newId, also when several requirements share one source key.
C30_UnchangedIdsNotReported ==
    (pc = "detected" /\ existing.state = "ok") =>
        (IdsOf(existing.facets) \cap IdsOf(newFacets)) \cap ReportedIds = {}

====
